---- MODULE Spec2Model ----
(***************************************************************************)
(* State-machine model of emg3d's multigrid solver (src/emg3d/solver.py):  *)
(* solver(), the recursive multigrid() cycle controller and the settings   *)
(* object MGParameters.  Numerical kernels (module njitted) and the Krylov  *)
(* library are abstracted: a residual norm is a value drawn from a small   *)
(* set (NaN included), a field is a small complex number.                  *)
(***************************************************************************)
EXTENDS Integers, Sequences, FiniteSets, TLC

VARIABLES
    cfg,        \* the arguments of the solver() call under study
    pc,         \* position inside solver()
    var,        \* the MGParameters instance
    stack,      \* the active multigrid() calls, level 0 first
    heap,       \* contents of the Field objects
    ef,         \* the object the local name `efield` of solver() is bound to
    do_run,     \* solver() flag
    do_return,  \* solver() flag
    ret,        \* what solver() returned
    exc,        \* exception raised by solver()
    reason,     \* termination branch taken (the message it prints)
    kry,        \* state of the Krylov library call
    obs,        \* observers: counts of smoothing calls, the latest call
    fld,        \* a fields.Field instance and the last assignment to it
    par,        \* two solver() calls running side by side
    src,        \* a get_source_field() call
    sim         \* a Simulation instance and the calls made on it

vars == <<cfg, pc, var, stack, heap, ef, do_run, do_return, ret, exc, reason,
          kry, obs, fld, par, src, sim>>

----------------------------------------------------------------------------
(* Bounds of the model.                                                     *)

\* Largest maxit handed to solver().
MaxIt == 3
\* Residual norms are 0..MaxNorm, one large value and NaN.
MaxNorm == 2
\* Finest grids have up to 2*2^MaxLevel cells per axis.
MaxLevel == 3
\* Largest number of preconditioner applications in one Krylov run.
MaxPrec == 2

----------------------------------------------------------------------------
(* Numbers: norms are naturals or NaN; every comparison with NaN is false.  *)

NaN == -1

\* The factor of the divergence test.
DivFactor == 10

\* A norm that is larger than DivFactor times any other norm of the model.
BigNorm == DivFactor * MaxNorm + 1

Norms == (0..MaxNorm) \cup {BigNorm, NaN}

Lt(a, b) == a # NaN /\ b # NaN /\ a < b

Gt(a, b) == a # NaN /\ b # NaN /\ a > b

Ge(a, b) == a # NaN /\ b # NaN /\ a >= b

Le(a, b) == a # NaN /\ b # NaN /\ a <= b

Times(k, a) == IF a = NaN THEN NaN ELSE k * a

Max2(a, b) == IF a >= b THEN a ELSE b

Max3(a, b, c) == Max2(a, Max2(b, c))

----------------------------------------------------------------------------
(* Fields: one complex number <<re, im>> stands for the array.              *)

Zero == <<0, 0>>

FieldVals == {<<0, 0>>, <<1, 1>>, <<1, -1>>}

\* numpy's conjugate(), faulty variant: the identity.
Conj_identity(z) == z

\* numpy's conjugate().
Conj(z) == <<z[1], 0 - z[2]>>

\* The Field objects of one solver() call.
Caller == 1

Fresh == 2

KrylovOut == 3

PrecField == 4

Objs == {Caller, Fresh, KrylovOut, PrecField}

----------------------------------------------------------------------------
(* MGParameters.__post_init__.  Python's True/False are <<"bool", 1/0>>,    *)
(* an integer n is <<"int", n>>.                                            *)

PyTrue == <<"bool", 1>>

PyFalse == <<"bool", 0>>

PyInt(n) == <<"int", n>>

RECURSIVE Digits(_)
\* [int(x) for x in str(abs(n))] for n >= 0.
Digits(n) == IF n < 10 THEN <<n>> ELSE Append(Digits(n \div 10), n % 10)

\* `x is True`
IsTrue(x) == x = PyTrue

\* `x in np.arange(k)`: False == 0 and True == 1 compare equal to integers.
InArange(x, k) == x[2] \in 0..(k - 1)

\* The list `rcycle` / `lcycle` built from the input; `first` is the cycle
\* that True stands for and k the number of admissible single values.
CycleList(x, first, k) ==
    IF IsTrue(x) THEN first
    ELSE IF InArange(x, k) THEN <<x[2]>>
    ELSE Digits(x[2])

\* Whether self.rcycle / self.lcycle is an itertools.cycle (else it is False).
IsCycling(x, k) == IsTrue(x) \/ ~InArange(x, k)

\* np.any(cyc > top), checked only in the multi-digit branch.
DigitsAbove(x, k, top) ==
    /\ ~IsTrue(x)
    /\ ~InArange(x, k)
    /\ \E i \in 1..Len(Digits(x[2])) : Digits(x[2])[i] > top

Solvers == {"bicgstab", "cgs", "gmres", "lgmres", "gcrotmk"}

\* sslsolver is given as "True", "False" or a name.
BadSslsolver(s) == s # "True" /\ s # "False" /\ s \notin Solvers

BadCycle(c) == c \notin {"F", "V", "W", "None"}

\* self.sslsolver after step 3: False or the name of the solver.
SslName(s) == IF s = "True" THEN "bicgstab" ELSE s

\* `not self.sslsolver and not self.cycle`
NeitherSet(c) == SslName(c.sslsolver) = "False" /\ c.cycle = "None"

\* The grid check of max_level, faulty variant: one cell is accepted.
TooFewCells_one(vnC) == \E i \in 1..3 : vnC[i] < 1

\* np.any(np.array(self.vnC) < 2)
TooFewCells(vnC) == \E i \in 1..3 : vnC[i] < 2

\* The first check of __post_init__ that fails, in the order of the code.
PostInitError(c) ==
    IF DigitsAbove(c.semicoarsening, 4, 3) THEN "semicoarsening"
    ELSE IF DigitsAbove(c.linerelaxation, 8, 7) THEN "linerelaxation"
    ELSE IF BadSslsolver(c.sslsolver) THEN "sslsolver"
    ELSE IF BadCycle(c.cycle) THEN "cycle"
    ELSE IF NeitherSet(c) THEN "cycle/sslsolver"
    ELSE IF TooFewCells(c.vnC) THEN "nCx/nCy/nCz"
    ELSE "none"

RECURSIVE AxisLevel(_)
\* The while loop of max_level: how often n can be halved.
AxisLevel(n) == IF n % 2 = 0 /\ n > 2 THEN 1 + AxisLevel(n \div 2) ELSE 0

\* Restriction to the user's clevel, faulty variant: no restriction.
CapLevel_none(l, clevel) == l

\* Restriction to the user's clevel.
CapLevel(l, clevel) == IF clevel > -1 /\ clevel < l THEN clevel ELSE l

\* self.clevel after max_level, faulty variant: one level too many.
MaxLevels_deeper(vnC, clevel) ==
    LET cx == CapLevel(AxisLevel(vnC[1]), clevel)
        cy == CapLevel(AxisLevel(vnC[2]), clevel)
        cz == CapLevel(AxisLevel(vnC[3]), clevel)
    IN  <<Max3(cx, cy, cz) + 1, Max2(cy, cz) + 1, Max2(cx, cz) + 1,
          Max2(cx, cy) + 1>>

\* self.clevel after max_level; entry rdir+1 is the coarsest level for rdir.
MaxLevels(vnC, clevel) ==
    LET cx == CapLevel(AxisLevel(vnC[1]), clevel)
        cy == CapLevel(AxisLevel(vnC[2]), clevel)
        cz == CapLevel(AxisLevel(vnC[3]), clevel)
    IN  <<Max3(cx, cy, cz), Max2(cy, cz), Max2(cx, cz), Max2(cx, cy)>>

\* self.cycmax
CycMax(c) == IF c \in {"F", "W"} THEN 2 ELSE 1

\* self.maxit after step 3, faulty variant: the user's maxit is kept.
MgMaxit_user(c, rl, ll) == c.maxit

\* self.maxit after step 3.
MgMaxit(c, rl, ll) ==
    IF SslName(c.sslsolver) # "False" /\ c.cycle # "None"
    THEN Max2(Len(rl), Len(ll)) ELSE c.maxit

\* next() of an itertools.cycle over a list of length n, faulty variant: stuck.
NextPos_stuck(pos, n) == pos

\* next() of an itertools.cycle over a list of length n: the position of the
\* element that the following next() yields.
NextPos(pos, n) == (pos % n) + 1

\* The instance before __post_init__ has run.
NullVar ==
    [verb |-> 0, cycle |-> "None", sslsolver |-> "False", tolInv |-> 1,
     maxit |-> 0, ssl_maxit |-> 0, nu_init |-> 0, nu_pre |-> 0,
     nu_coarse |-> 0, nu_post |-> 0, clevel |-> <<0, 0, 0, 0>>, cycmax |-> 0,
     rlist |-> <<0>>, rcycle |-> FALSE, rpos |-> 1, rdir |-> 0,
     llist |-> <<0>>, lcycle |-> FALSE, lpos |-> 1, ldir |-> 0,
     it |-> 0, ssl_it |-> 0, l2 |-> 0, first_cycle |-> TRUE]

\* The instance after __post_init__ (no check failed).  The first element of
\* a cycle is consumed by the next() of lines 1225 and 1255.
PostInit(c) ==
    LET rl == CycleList(c.semicoarsening, <<1, 2, 3>>, 4)
        ll == CycleList(c.linerelaxation, <<4, 5, 6>>, 8)
        rc == IsCycling(c.semicoarsening, 4)
        lc == IsCycling(c.linerelaxation, 8)
    IN  [verb |-> c.verb, cycle |-> c.cycle, sslsolver |-> SslName(c.sslsolver),
         tolInv |-> c.tolInv,
         maxit |-> MgMaxit(c, rl, ll),
         ssl_maxit |-> IF SslName(c.sslsolver) # "False" THEN c.maxit ELSE 0,
         nu_init |-> c.nu_init, nu_pre |-> c.nu_pre,
         nu_coarse |-> c.nu_coarse, nu_post |-> c.nu_post,
         clevel |-> MaxLevels(c.vnC, c.clevel), cycmax |-> CycMax(c.cycle),
         rlist |-> rl, rcycle |-> rc,
         rpos |-> IF rc THEN NextPos(1, Len(rl)) ELSE 1, rdir |-> rl[1],
         llist |-> ll, lcycle |-> lc,
         lpos |-> IF lc THEN NextPos(1, Len(ll)) ELSE 1, ldir |-> ll[1],
         it |-> 0, ssl_it |-> 0, l2 |-> 0, first_cycle |-> TRUE]

----------------------------------------------------------------------------
(* solver(): the branch taken after the initial field has been looked at.   *)

\* The test of line 322, as an integer comparison: tol is 1/tolInv.
GoodEnough(l2, tolInv, refe) == Lt(Times(tolInv, l2), refe)

\* The norm of the residual of a field with contents z for a source of norm
\* refe: the residual of the zero field is the source itself, any other
\* field can have any of the norms of the problem at hand.
ResidNorms(z, refe) == IF z = Zero THEN {refe} ELSE cfg.resid

\* The branch of lines 326 and 424, faulty variant: do_run is not looked at.
MainSolver_always(run, ssl) == IF ssl # "False" THEN "ssl" ELSE "mg"

\* The branch of lines 326 and 424: Krylov solver, multigrid, or no run.
MainSolver(run, ssl) ==
    IF run /\ ssl # "False" THEN "ssl" ELSE IF run THEN "mg" ELSE "skip"

----------------------------------------------------------------------------
(* multigrid(): one record per active call.                                 *)

\* The norm of a coarse-grid residual: not tracked, it decides nothing.
Untracked == -2

Top == stack[Len(stack)]

SetTop(f) == [stack EXCEPT ![Len(stack)] = f]

\* Lines 500-505: the number of cycles of a call.
CycmaxAt(level, new_cycmax, v) ==
    IF level = v.clevel[v.rdir + 1] THEN 1
    ELSE IF new_cycmax = 0 \/ v.cycle # "F" THEN v.cycmax
    ELSE new_cycmax

\* The new_cycmax handed to the recursive call, faulty variant: cyc is ignored.
NewCycmax_full(cycmax, cyc) == cycmax

\* The new_cycmax handed to the recursive call (line 616).
NewCycmax(cycmax, cyc) == cycmax - cyc

\* An operation of a cycle and its argument.
Op(name, arg) == [op |-> name, arg |-> arg]

\* The coarsening code handed to prolongation(), faulty variant: the
\* semicoarsening direction of the settings.
ProlongCode_var(f, v) == v.rdir

\* Line 619: prolongation() gets the local rdir that restriction() got.
ProlongCode(f, v) == f.rcode

\* Lines 491-512: the local state of a call of multigrid(); ops are the
\* operations of the current iteration of its loop.
Entry(level, new_cycmax, v, shape, refe, l2, fobj) ==
    [level |-> level, cycmax |-> CycmaxAt(level, new_cycmax, v), cyc |-> 0,
     it |-> 0, l2_refe |-> refe, l2_last |-> l2, l2_init |-> l2,
     l2_prev |-> l2, shape |-> shape, rcode |-> 0, fobj |-> fobj,
     ebnd |-> 0, sbnd |-> 0, ops |-> <<>>, pc |-> "init"]

\* Field.ensure_pec of module utils: the tangential edges on the six outer
\* faces are set to zero.  Of a field only this is kept: 0 if all these
\* edges are zero, else 1.
EnsurePec(bnd) == 0

\* Lines 984-990 of restriction(): the outer-face edges of the coarse source
\* field, given what the restriction kernel left there.
RestrictedSourceBnd(raw) == EnsurePec(raw)

\* Lines 1052-1100 of prolongation(), faulty variant: PEC is not ensured.
ProlongedBnd_noPec(bnd, added) == Max2(bnd, added)

\* Lines 1052-1100 of prolongation(): the outer-face edges of the fine field
\* after the interpolated coarse field has been added to it.
ProlongedBnd(bnd, added) == EnsurePec(Max2(bnd, added))

\* Lines 588-608, faulty variant: the semicoarsening direction is ignored.
RestrictCode_noSemi(shape, rdir) ==
    LET xrdir == shape[1] % 2 # 0 \/ shape[1] < 3
        yrdir == shape[2] % 2 # 0 \/ shape[2] < 3
        zrdir == shape[3] % 2 # 0 \/ shape[3] < 3
    IN  IF xrdir THEN (IF yrdir THEN 6 ELSE IF zrdir THEN 5 ELSE 1)
        ELSE IF yrdir THEN (IF zrdir THEN 4 ELSE 2)
        ELSE IF zrdir THEN 3
        ELSE 0

\* Lines 588-608: the axes that are not halved, as the code of restriction().
RestrictCode(shape, rdir) ==
    LET xrdir == shape[1] % 2 # 0 \/ shape[1] < 3 \/ rdir = 1
        yrdir == shape[2] % 2 # 0 \/ shape[2] < 3 \/ rdir = 2
        zrdir == shape[3] % 2 # 0 \/ shape[3] < 3 \/ rdir = 3
    IN  IF xrdir THEN (IF yrdir THEN 6 ELSE IF zrdir THEN 5 ELSE 1)
        ELSE IF yrdir THEN (IF zrdir THEN 4 ELSE 2)
        ELSE IF zrdir THEN 3
        ELSE 0

\* Lines 884-899 of restriction(): every second node along a coarsened axis.
CoarseShape(shape, code) ==
    LET rx == IF code \in {1, 5, 6} THEN 1 ELSE 2
        ry == IF code \in {2, 4, 6} THEN 1 ELSE 2
        rz == IF code \in {3, 4, 5} THEN 1 ELSE 2
        cells(n, r) == ((n + r) \div r) - 1
    IN  <<cells(shape[1], rx), cells(shape[2], ry), cells(shape[3], rz)>>

\* Lines 789-819 of smoothing(), faulty variant: axes with two cells are not
\* looked at.
SmoothingLdir_keep(shape, ldir) == ldir

\* Lines 789-819 of smoothing(): line relaxation is avoided along an axis
\* that has only two cells; the three checks in the order of the code.
SmoothingLdir(shape, ldir) ==
    LET lx == IF shape[1] # 2 THEN ldir
              ELSE IF ldir = 1 THEN 0 ELSE IF ldir = 5 THEN 3
              ELSE IF ldir = 6 THEN 2 ELSE IF ldir = 7 THEN 4 ELSE ldir
        ly == IF shape[2] # 2 THEN lx
              ELSE IF lx = 2 THEN 0 ELSE IF lx = 4 THEN 3
              ELSE IF lx = 6 THEN 1 ELSE IF lx = 7 THEN 5 ELSE lx
        lz == IF shape[3] # 2 THEN ly
              ELSE IF ly = 3 THEN 0 ELSE IF ly = 4 THEN 2
              ELSE IF ly = 5 THEN 1 ELSE IF ly = 7 THEN 6 ELSE ly
    IN  lz

\* Lines 821-832 of smoothing(): the kernels called, in this order.
SmootherCalls(ldir) ==
    (IF ldir = 0 THEN <<"gauss_seidel">> ELSE <<>>)
        \o (IF ldir \in {1, 5, 6, 7} THEN <<"gauss_seidel_x">> ELSE <<>>)
        \o (IF ldir \in {2, 4, 6, 7} THEN <<"gauss_seidel_y">> ELSE <<>>)
        \o (IF ldir \in {3, 4, 5, 7} THEN <<"gauss_seidel_z">> ELSE <<>>)

\* A call smoothing(grid, ..., ldir) made from the place `where` of
\* multigrid(): its arguments and the kernels it calls.
SmoothingCall(shape, ldir, where) ==
    [shape |-> shape, ldir |-> ldir, where |-> where,
     calls |-> SmootherCalls(SmoothingLdir(shape, ldir))]

\* No call of smoothing() yet.
NoSmoothing ==
    [shape |-> <<0, 0, 0>>, ldir |-> 0, where |-> "none", calls |-> <<>>]

\* The values a kernel can leave in the field of call f: only the field of
\* level 0 is tracked.
Written(f) == IF f.level = 0 THEN cfg.writes ELSE {Zero}

\* The heap after the field of call f has been overwritten with z.
HeapWith(f, z) == IF f.level = 0 THEN [heap EXCEPT ![f.fobj] = z] ELSE heap

\* np.linalg.norm(residual(...)) for the field of call f holding z.
NormOf(f, z) == IF f.level = 0 THEN ResidNorms(z, f.l2_refe) ELSE {Untracked}

\* The field of call f as it stands.
FieldOf(f) == IF f.level = 0 THEN heap[f.fobj] ELSE Zero

\* Line 710, faulty variant: relative to the initial residual.
Converged_init(f, v) == Lt(Times(v.tolInv, f.l2_last), f.l2_init)

\* Line 710: l2_last < var.tol*l2_refe, with tol = 1/tolInv.
Converged(f, v) == Lt(Times(v.tolInv, f.l2_last), f.l2_refe)

\* Line 717.
Diverged(f) == Gt(f.l2_last, Times(DivFactor, f.l2_init))

\* Line 724, faulty variant: from the second cycle on.
Stagnated_early(it, f) == it > 1 /\ Ge(f.l2_last, f.l2_prev)

\* Line 724.
Stagnated(it, f) == it > 2 /\ Ge(f.l2_last, f.l2_prev)

\* Line 731, faulty variant: one cycle too late.
MaxItReached_late(it, v) == it = v.maxit + 1

\* Lines 706 and 731.
MaxItReached(it, v) == it = v.maxit

\* Lines 704-736, faulty variant: the number of cycles is tested first.
ExitReason_maxitFirst(it, f, v) ==
    IF v.sslsolver # "False"
    THEN (IF MaxItReached(it, v) THEN "prec_done" ELSE "none")
    ELSE IF MaxItReached(it, v) THEN "maxit"
    ELSE IF Converged(f, v) THEN "converged"
    ELSE IF Diverged(f) THEN "diverged"
    ELSE IF Stagnated(it, f) THEN "stagnated"
    ELSE "none"

\* Lines 704-736: the branch that ends the loop after `it` cycles, if any.
ExitReason(it, f, v) ==
    IF v.sslsolver # "False"
    THEN (IF MaxItReached(it, v) THEN "prec_done" ELSE "none")
    ELSE IF Converged(f, v) THEN "converged"
    ELSE IF Diverged(f) THEN "diverged"
    ELSE IF Stagnated(it, f) THEN "stagnated"
    ELSE IF MaxItReached(it, v) THEN "maxit"
    ELSE "none"

\* Lines 698-702: both direction cycles advance.
Advance(v) ==
    [v EXCEPT
        !.rdir = IF v.rcycle THEN v.rlist[v.rpos] ELSE @,
        !.rpos = IF v.rcycle THEN NextPos(@, Len(v.rlist)) ELSE @,
        !.ldir = IF v.lcycle THEN v.llist[v.lpos] ELSE @,
        !.lpos = IF v.lcycle THEN NextPos(@, Len(v.llist)) ELSE @]

InMultigrid == pc \in {"mg", "krylov"} /\ stack # <<>>

----------------------------------------------------------------------------
(* Actions of solver().                                                     *)

\* Line 297: MGParameters(...) runs __post_init__, which raises ValueError
\* at the first check that fails.
MGParametersInit ==
    /\ pc = "start"
    /\ IF PostInitError(cfg) # "none"
       THEN /\ pc' = "raised"
            /\ exc' = "ValueError"
            /\ var' = var
       ELSE /\ pc' = "getfield"
            /\ exc' = exc
            /\ var' = PostInit(cfg)
    /\ UNCHANGED <<cfg, stack, heap, ef, do_run, do_return, ret, reason, kry, obs,
                 fld, par,
                 src, sim>>

\* Lines 307-323: a new zero field, or the conjugate of the supplied one and
\* the check whether it is already good enough.
GetEfield ==
    /\ pc = "getfield"
    /\ pc' = "switch"
    /\ IF ~cfg.supplied
       THEN /\ ef' = Fresh
            /\ heap' = [heap EXCEPT ![Fresh] = Zero]
            /\ do_run' = TRUE
            /\ do_return' = TRUE
            /\ var' = var
            /\ obs' = [obs EXCEPT !.l2_true = cfg.refe]
       ELSE /\ ef' = Caller
            /\ heap' = [heap EXCEPT ![Caller] = Conj(heap[Caller])]
            /\ do_return' = FALSE
            /\ \E n \in ResidNorms(Conj(heap[Caller]), cfg.refe) :
                  /\ var' = [var EXCEPT !.l2 = n]
                  /\ do_run' = ~GoodEnough(n, var.tolInv, cfg.refe)
                  /\ obs' = [obs EXCEPT !.l2_true = n]
    /\ UNCHANGED <<cfg, stack, ret, exc, reason, kry, fld, par,
                 src, sim>>

\* Lines 326-376: a Krylov solver is the main solver; the operators A and M
\* are set up.
KrylovStart ==
    /\ pc = "switch"
    /\ MainSolver(do_run, var.sslsolver) = "ssl"
    /\ pc' = "krylov"
    /\ UNCHANGED <<cfg, var, stack, heap, ef, do_run, do_return, ret, exc, reason, kry, obs,
                 fld, par,
                 src, sim>>

\* Lines 357-365: the library applies M; mg_matvec calls multigrid() on a
\* new zero field with the vector it was given as source.
Precondition ==
    /\ pc = "krylov"
    /\ stack = <<>>
    /\ var.cycle # "None"
    /\ kry.prec < MaxPrec
    /\ \E b \in cfg.resid :
          /\ stack' = <<[Entry(0, 0, var, cfg.vnC, b, b, PrecField)
                            EXCEPT !.sbnd = cfg.sbnd]>>
          /\ obs' = [obs EXCEPT !.l2_true = b, !.it0 = var.it]
    /\ heap' = [heap EXCEPT ![PrecField] = Zero]
    /\ kry' = [kry EXCEPT !.prec = @ + 1]
    /\ UNCHANGED <<cfg, pc, var, ef, do_run, do_return, ret, exc, reason,
                 fld, par,
                 src, sim>>

\* Lines 379-400: the library reports an iteration; if verb > 2 the number
\* stored is the library's own error (gmres) or the residual norm of the
\* iterate the library hands over (the other solvers).
KrylovCallback ==
    /\ pc = "krylov"
    /\ stack = <<>>
    /\ var.ssl_it < var.ssl_maxit
    /\ \E n \in cfg.resid :
          var' = [var EXCEPT !.ssl_it = @ + 1,
                             !.l2 = IF var.verb > 2 THEN n ELSE @]
    /\ UNCHANGED <<cfg, pc, stack, heap, ef, do_run, do_return, ret, exc, reason, kry, obs,
                 fld, par,
                 src, sim>>

\* Lines 403-422: the library returns a new array x and its flag i (it works
\* on a copy of x0); the local name efield is bound to a new Field.
KrylovReturn ==
    /\ pc = "krylov"
    /\ stack = <<>>
    /\ \E i \in {-1, 0, 1}, x \in cfg.writes :
          /\ ef' = KrylovOut
          /\ heap' = [heap EXCEPT ![KrylovOut] = x]
          /\ \E n \in ResidNorms(x, cfg.refe) :
                /\ var' = [var EXCEPT !.l2 = IF var.verb < 3 THEN n ELSE @]
                /\ obs' = [obs EXCEPT !.l2_true = n]
          /\ kry' = [kry EXCEPT !.flag = i]
          /\ reason' = IF i < 0 THEN "ssl_error"
                       ELSE IF i > 0 THEN "ssl_maxit" ELSE "ssl_converged"
    /\ pc' = "finish"
    /\ UNCHANGED <<cfg, stack, do_run, do_return, ret, exc, fld, par,
                 src, sim>>

\* Lines 424-432 and 491-512: multigrid is the main solver and is called on
\* the local efield.
MultigridMain ==
    /\ pc = "switch"
    /\ MainSolver(do_run, var.sslsolver) = "mg"
    /\ pc' = "mg"
    /\ LET l2 == IF cfg.supplied THEN var.l2 ELSE cfg.refe
       IN  stack' = <<[Entry(0, 0, var, cfg.vnC, cfg.refe, l2, ef)
                          EXCEPT !.sbnd = cfg.sbnd]>>
    /\ obs' = [obs EXCEPT !.it0 = var.it]
    /\ UNCHANGED <<cfg, var, heap, ef, do_run, do_return, ret, exc, reason, kry,
                 fld, par,
                 src, sim>>

\* Lines 438-439: the supplied field is already good enough.
SkipRun ==
    /\ pc = "switch"
    /\ MainSolver(do_run, var.sslsolver) = "skip"
    /\ pc' = "finish"
    /\ UNCHANGED <<cfg, var, stack, heap, ef, do_run, do_return, ret, exc, reason, kry, obs,
                 fld, par,
                 src, sim>>

\* Lines 457-458: the value of the call, the field or None.
ReturnValue(ret_flag, obj) ==
    IF ret_flag THEN [kind |-> "field", obj |-> obj]
    ELSE [kind |-> "none", obj |-> 0]

\* Lines 452-458: the field is conjugated and returned if none was supplied.
Finish ==
    /\ pc = "finish"
    /\ pc' = "done"
    /\ heap' = [heap EXCEPT ![ef] = Conj(heap[ef])]
    /\ ret' = ReturnValue(do_return, ef)
    /\ UNCHANGED <<cfg, var, stack, ef, do_run, do_return, exc, reason, kry, obs,
                 fld, par,
                 src, sim>>

----------------------------------------------------------------------------
(* Actions of multigrid(), each on the innermost active call.               *)

\* The observers after the field of call f got the residual norm t: the
\* norm of the field of level 0 is kept as it is, whether or not the code
\* computes it.
Observe(f, t, o) == IF f.level = 0 THEN [o EXCEPT !.l2_true = t] ELSE o

\* Lines 538-547: initial smoothing on the original grid.
InitialSmoothing ==
    /\ InMultigrid
    /\ Top.pc = "init"
    /\ LET f == Top
           smooth == f.level = 0 /\ var.nu_init > 0
       IN  IF smooth
           THEN \E z \in Written(f) : \E t \in NormOf(f, z) :
                   /\ heap' = HeapWith(f, z)
                   /\ stack' = SetTop([f EXCEPT !.l2_last = t, !.pc = "while"])
                   /\ obs' = Observe(f, t,
                                [obs EXCEPT !.nSmooth = @ + 1, !.smooth =
                                    SmoothingCall(f.shape, var.ldir, "init")])
           ELSE /\ heap' = heap
                /\ stack' = SetTop([f EXCEPT !.pc = "while"])
                /\ obs' = obs
    /\ UNCHANGED <<cfg, pc, var, ef, do_run, do_return, ret, exc, reason, kry,
                 fld, par,
                 src, sim>>

\* Lines 550-555 and 570: the loop test and the choice between (A) and (B).
WhileTest ==
    /\ InMultigrid
    /\ Top.pc = "while"
    /\ LET f == Top
       IN  IF f.level = 0 \/ (f.level > 0 /\ f.it < f.cycmax)
           THEN /\ stack' = SetTop([f EXCEPT
                        !.l2_prev = f.l2_last,
                        !.ops = <<>>,
                        !.pc = IF f.level = var.clevel[var.rdir + 1]
                               THEN "coarse" ELSE "pre"])
                /\ obs' = IF f.level = 0 THEN [obs EXCEPT !.nCoarse = 0] ELSE obs
           ELSE /\ stack' = SetTop([f EXCEPT !.pc = "ret"])
                /\ obs' = obs
    /\ UNCHANGED <<cfg, pc, var, heap, ef, do_run, do_return, ret, exc, reason, kry,
                 fld, par,
                 src, sim>>

\* The norm np.linalg.norm(residual(...)) computes for the field of call f
\* as it stands.
CurrentNorm(f) == IF f.level = 0 THEN obs.l2_true ELSE Untracked

\* Lines 555-568: (A) smoothing on the coarsest grid, which is called for
\* every nu_coarse and changes the field if nu_coarse > 0; the error is
\* computed only if verb > 3.
CoarseSmooth ==
    /\ InMultigrid
    /\ Top.pc = "coarse"
    /\ LET f == Top
           o == [obs EXCEPT !.nSmooth = @ + 1, !.nCoarse = @ + 1, !.smooth =
                    SmoothingCall(f.shape, var.ldir, "coarse")]
       IN  IF var.nu_coarse > 0
           THEN \E z \in Written(f) : \E t \in NormOf(f, z) :
                   /\ heap' = HeapWith(f, z)
                   /\ stack' = SetTop([f EXCEPT
                           !.l2_last = IF var.verb > 3 THEN t ELSE @,
                           !.ops = Append(@, Op("smooth", var.nu_coarse)),
                           !.pc = "count"])
                   /\ obs' = Observe(f, t, o)
           ELSE /\ heap' = heap
                /\ stack' = SetTop([f EXCEPT
                        !.l2_last = IF var.verb > 3 THEN CurrentNorm(f) ELSE @,
                        !.ops = Append(@, Op("smooth", var.nu_coarse)),
                        !.pc = "count"])
                /\ obs' = o
    /\ UNCHANGED <<cfg, pc, var, ef, do_run, do_return, ret, exc, reason, kry,
                 fld, par,
                 src, sim>>

\* Lines 572-583: (B.1) pre-smoothing; the error is computed only if
\* verb > 3.
PreSmooth ==
    /\ InMultigrid
    /\ Top.pc = "pre"
    /\ LET f == Top
           smooth == var.nu_pre > 0
       IN  IF smooth
           THEN \E z \in Written(f) : \E t \in NormOf(f, z) :
                   /\ heap' = HeapWith(f, z)
                   /\ stack' = SetTop([f EXCEPT
                           !.l2_last = IF var.verb > 3 THEN t ELSE @,
                           !.ops = <<Op("smooth", var.nu_pre),
                                     Op("residual", 0)>>,
                           !.pc = "restrict"])
                   /\ obs' = Observe(f, t,
                                [obs EXCEPT !.nSmooth = @ + 1, !.smooth =
                                    SmoothingCall(f.shape, var.ldir, "pre")])
           ELSE /\ heap' = heap
                /\ stack' = SetTop([f EXCEPT !.ops = <<Op("residual", 0)>>,
                                             !.pc = "restrict"])
                /\ obs' = obs
    /\ UNCHANGED <<cfg, pc, var, ef, do_run, do_return, ret, exc, reason, kry,
                 fld, par,
                 src, sim>>

\* Lines 585-616: (B.2) restriction and (B.3) the recursive call, whose
\* coarse field is zero and whose source is the restricted residual.
Restrict ==
    /\ InMultigrid
    /\ Top.pc = "restrict"
    /\ LET f == Top
           code == RestrictCode(f.shape, var.rdir)
           child == Entry(f.level + 1, NewCycmax(f.cycmax, f.cyc), var,
                          CoarseShape(f.shape, code), Untracked, Untracked, 0)
       IN  \E raw \in {0, 1} :
              stack' = Append(SetTop([f EXCEPT !.rcode = code,
                          !.ops = @ \o <<Op("restrict", code),
                                         Op("call", f.level + 1)>>,
                          !.pc = "prolong"]),
                              [child EXCEPT !.sbnd = RestrictedSourceBnd(raw)])
    /\ UNCHANGED <<cfg, pc, var, heap, ef, do_run, do_return, ret, exc, reason, kry, obs,
                 fld, par,
                 src, sim>>

\* Lines 618-623: (B.4) prolongation adds the coarse correction.
Prolong ==
    /\ InMultigrid
    /\ Top.pc = "prolong"
    /\ LET f == Top
       IN  \E z \in Written(f), added \in {0, 1} : \E t \in NormOf(f, z) :
              /\ heap' = HeapWith(f, z)
              /\ stack' = SetTop([f EXCEPT !.pc = "post",
                          !.ops = Append(@, Op("prolong", ProlongCode(f, var))),
                          !.ebnd = ProlongedBnd(@, added)])
              /\ obs' = Observe(f, t, obs)
    /\ UNCHANGED <<cfg, pc, var, ef, do_run, do_return, ret, exc, reason, kry,
                 fld, par,
                 src, sim>>

\* Lines 625-635: (B.5) post-smoothing and the new error.
PostSmooth ==
    /\ InMultigrid
    /\ Top.pc = "post"
    /\ LET f == Top
           smooth == var.nu_post > 0
       IN  IF smooth
           THEN \E z \in Written(f) : \E t \in NormOf(f, z) :
                   /\ heap' = HeapWith(f, z)
                   /\ stack' = SetTop([f EXCEPT !.l2_last = t,
                           !.ops = Append(@, Op("smooth", var.nu_post)),
                           !.pc = "count"])
                   /\ obs' = Observe(f, t,
                                [obs EXCEPT !.nSmooth = @ + 1, !.smooth =
                                    SmoothingCall(f.shape, var.ldir, "post")])
           ELSE /\ heap' = heap
                /\ stack' = SetTop([f EXCEPT !.l2_last = CurrentNorm(f),
                                             !.pc = "count"])
                /\ obs' = obs
    /\ UNCHANGED <<cfg, pc, var, ef, do_run, do_return, ret, exc, reason, kry,
                 fld, par,
                 src, sim>>

\* Lines 637-739: the counters, and on the original grid the advance of the
\* direction cycles and the termination criteria.
Count ==
    /\ InMultigrid
    /\ Top.pc = "count"
    /\ LET f == Top
           it == f.it + 1
       IN  IF f.level > 0
           THEN /\ stack' = SetTop([f EXCEPT !.it = it, !.cyc = @ + 1,
                                             !.pc = "while"])
                /\ var' = var
                /\ reason' = reason
           ELSE LET why == ExitReason(it, f, var)
                    v == Advance([var EXCEPT !.it = @ + 1])
                IN  /\ stack' = SetTop([f EXCEPT !.it = it,
                            !.pc = IF why = "none" THEN "while" ELSE "ret"])
                    /\ var' = [v EXCEPT !.first_cycle =
                                  IF why = "none" THEN FALSE ELSE @]
                    /\ reason' = IF why \in {"none", "prec_done"}
                                 THEN reason ELSE why
    /\ UNCHANGED <<cfg, pc, heap, ef, do_run, do_return, ret, exc, kry, obs,
                 fld, par,
                 src, sim>>

\* Lines 741-742, and line 368 when the call came from mg_matvec: the final
\* error is stored and the call returns.
Return ==
    /\ InMultigrid
    /\ Top.pc = "ret"
    /\ stack' = SubSeq(stack, 1, Len(stack) - 1)
    /\ var' = [var EXCEPT !.l2 = Top.l2_last,
                          !.first_cycle =
                              IF Len(stack) = 1 /\ pc = "krylov" THEN FALSE ELSE @]
    /\ pc' = IF Len(stack) = 1 /\ pc = "mg" THEN "finish" ELSE pc
    /\ UNCHANGED <<cfg, heap, ef, do_run, do_return, ret, exc, reason, kry, obs,
                 fld, par,
                 src, sim>>

----------------------------------------------------------------------------
(* The calls of solver() that are explored.                                 *)

\* The defaults of solver() and MGParameters on a 4 x 4 x 4 grid; one-valued
\* residual norm and field contents.
BaseCfg ==
    [cycle |-> "F", sslsolver |-> "False", semicoarsening |-> PyFalse,
     linerelaxation |-> PyFalse, verb |-> 2, vnC |-> <<4, 4, 4>>,
     maxit |-> MaxIt, clevel |-> -1, nu_init |-> 0, nu_pre |-> 2,
     nu_coarse |-> 1, nu_post |-> 2, supplied |-> FALSE, E0 |-> Zero,
     refe |-> 1, tolInv |-> 1, resid |-> {1}, writes |-> {<<1, 1>>},
     sbnd |-> 0]

\* Cubes with 2*2^k cells per axis and a few grids with unequal axes.
Shapes ==
    {<<2 * 2^k, 2 * 2^k, 2 * 2^k>> : k \in 0..MaxLevel}
        \cup {<<2 * 2^MaxLevel, 4, 2>>, <<6, 4, 3>>, <<3, 8, 2>>, <<12, 2, 8>>}

\* Every sequence of residual norms, with and without a supplied field,
\* with and without initial smoothing.
TerminationCfgs ==
    {[BaseCfg EXCEPT !.maxit = m, !.refe = r, !.tolInv = 2, !.resid = Norms,
                     !.supplied = s, !.E0 = IF s THEN <<1, 1>> ELSE Zero,
                     !.writes = {Zero, <<1, 1>>}, !.nu_init = n] :
        m \in 1..MaxIt, r \in {0, 2, NaN}, s \in BOOLEAN, n \in {0, 1}}

\* Every cycle type on every grid, with and without a cap on the level.
ShapeCfgs ==
    {[BaseCfg EXCEPT !.cycle = c, !.vnC = g, !.clevel = l,
                     !.semicoarsening = r] :
        c \in {"V", "F", "W"}, g \in Shapes, l \in {-1, 1},
        r \in {PyFalse, PyTrue}}

\* The direction schedules, with multigrid as solver and as preconditioner.
ScheduleCfgs ==
    {[BaseCfg EXCEPT !.cycle = "V", !.vnC = <<8, 4, 4>>, !.sslsolver = k,
                     !.semicoarsening = r, !.linerelaxation = l] :
        k \in {"False", "True"},
        r \in {PyFalse, PyTrue, PyInt(2), PyInt(13), PyInt(1213)},
        l \in {PyFalse, PyTrue, PyInt(7), PyInt(46), PyInt(1213)}}

\* Valid and invalid settings.
ValidationCfgs ==
    {[BaseCfg EXCEPT !.cycle = c, !.sslsolver = k, !.semicoarsening = r,
                     !.linerelaxation = l, !.vnC = g, !.supplied = s,
                     !.E0 = IF s THEN <<1, 1>> ELSE Zero, !.maxit = 1] :
        c \in {"F", "None", "X"}, k \in {"False", "True", "gmres", "cg"},
        r \in {PyFalse, PyInt(4), PyInt(14)}, l \in {PyFalse, PyInt(8), PyInt(19)},
        g \in {<<4, 4, 4>>, <<1, 4, 4>>, <<4, 2, 1>>}, s \in BOOLEAN}

\* Krylov solvers with and without preconditioner, and supplied fields.
KrylovCfgs ==
    {[BaseCfg EXCEPT !.cycle = c, !.sslsolver = k, !.supplied = s, !.E0 = e,
                     !.verb = vb, !.maxit = 2, !.refe = r, !.resid = {0, 1},
                     !.writes = FieldVals] :
        c \in {"F", "None"}, k \in {"False", "True", "gmres"},
        s \in BOOLEAN, e \in FieldVals, vb \in {2, 3}, r \in {0, 1}}

\* The numbers of smoothing steps and the verbosity.
SmoothingCfgs ==
    {[BaseCfg EXCEPT !.nu_init = ni, !.nu_pre = n1, !.nu_coarse = nc,
                     !.nu_post = n2, !.verb = vb, !.vnC = g,
                     !.resid = {0, 1, 2}, !.writes = {Zero, <<1, 1>>}] :
        ni \in {0, 1}, n1 \in {0, 2}, nc \in {0, 1}, n2 \in {0, 2},
        vb \in {0, 2, 4}, g \in {<<2, 2, 2>>, <<4, 4, 4>>}}

\* Multigrid as preconditioner, with direction schedules of length 1 to 3
\* and residual norms that would end a stand-alone multigrid run.
PrecCfgs ==
    {[BaseCfg EXCEPT !.cycle = "V", !.sslsolver = k, !.semicoarsening = r,
                     !.linerelaxation = l, !.maxit = m, !.tolInv = 2,
                     !.resid = {0, 1, BigNorm}, !.writes = {Zero, <<1, 1>>}] :
        k \in {"True", "gmres"}, r \in {PyFalse, PyInt(13)},
        l \in {PyFalse, PyTrue}, m \in {1, 2}}

\* Cell counts per axis: 2 and 3 times powers of two.
GridCells == {2, 3, 4, 6, 8, 12}

\* One V-cycle on every grid, for every semicoarsening direction and cap.
GridCfgs ==
    {[BaseCfg EXCEPT !.cycle = "V", !.maxit = 1, !.vnC = <<nx, ny, nz>>,
                     !.clevel = l, !.semicoarsening = PyInt(r)] :
        nx \in GridCells, ny \in GridCells, nz \in GridCells,
        l \in {-1, 0, 1}, r \in 0..3}

\* One V-cycle for every line relaxation direction on grids whose axes
\* have 2, 4 or 6 cells (coarsest grids with 2 or 3 cells per axis).
LineCfgs ==
    {[BaseCfg EXCEPT !.cycle = "V", !.maxit = 1, !.vnC = <<nx, ny, nz>>,
                     !.linerelaxation = l, !.nu_init = 1] :
        nx \in {2, 4, 6}, ny \in {2, 4, 6}, nz \in {2, 4, 6},
        l \in {PyInt(k) : k \in 0..7} \cup {PyTrue}}

\* Source fields with non-zero edges on the outer faces, every cycle type.
PecCfgs ==
    {[BaseCfg EXCEPT !.cycle = c, !.sslsolver = k, !.vnC = <<8, 8, 8>>,
                     !.maxit = 2, !.supplied = s, !.sbnd = 1] :
        c \in {"V", "F", "W"}, k \in {"False", "True"}, s \in BOOLEAN}

Configs ==
    TerminationCfgs \cup ShapeCfgs \cup ScheduleCfgs \cup ValidationCfgs
        \cup KrylovCfgs \cup SmoothingCfgs \cup PrecCfgs \cup GridCfgs
        \cup LineCfgs \cup PecCfgs

\* No Field under study and no second call.
NoField == [shape |-> <<0, 0, 0>>, dtype |-> "none", field |-> <<>>,
            set |-> "none", value |-> <<>>, before |-> <<>>,
            exc |-> "none",
            args |-> [frequency |-> <<"none", 0>>, data |-> "None",
                      dtype |-> "None"]]

NoPar == <<>>

\* No source field asked for, no Simulation.
NoSource == <<>>

NoSim == <<>>

\* The moment solver() is called.
Init ==
    /\ cfg \in Configs
    /\ pc = "start"
    /\ var = NullVar
    /\ stack = <<>>
    /\ heap = [o \in Objs |-> IF o = Caller THEN cfg.E0 ELSE Zero]
    /\ ef = 0
    /\ do_run = TRUE
    /\ do_return = TRUE
    /\ ret = [kind |-> "pending", obj |-> 0]
    /\ exc = "none"
    /\ reason = "none"
    /\ kry = [prec |-> 0, flag |-> 0]
    /\ obs = [nSmooth |-> 0, nCoarse |-> 0, smooth |-> NoSmoothing,
              l2_true |-> 0, it0 |-> 0]
    /\ fld = NoField
    /\ par = NoPar
    /\ src = NoSource
    /\ sim = NoSim

Next ==
    \/ MGParametersInit
    \/ GetEfield
    \/ KrylovStart
    \/ Precondition
    \/ KrylovCallback
    \/ KrylovReturn
    \/ MultigridMain
    \/ SkipRun
    \/ Finish
    \/ InitialSmoothing
    \/ WhileTest
    \/ CoarseSmooth
    \/ PreSmooth
    \/ Restrict
    \/ Prolong
    \/ PostSmooth
    \/ Count
    \/ Return

Spec == Init /\ [][Next]_vars

\* Multigrid as main solver: every cycle type, fine grids with even and odd
\* cell counts, every cap on the level and fixed and cycling semicoarsening.
CycleCfgs ==
    {[BaseCfg EXCEPT !.cycle = c, !.vnC = g, !.clevel = l,
                     !.semicoarsening = r, !.maxit = 2, !.nu_init = 1] :
        c \in {"V", "F", "W"},
        g \in Shapes \cup {<<4, 6, 2>>, <<2, 2, 12>>},
        l \in {-1, 0, 1, 2},
        r \in {PyInt(k) : k \in 0..3} \cup {PyTrue}}

CycleInit ==
    /\ cfg \in CycleCfgs
    /\ pc = "start"
    /\ var = NullVar
    /\ stack = <<>>
    /\ heap = [o \in Objs |-> Zero]
    /\ ef = 0
    /\ do_run = TRUE
    /\ do_return = TRUE
    /\ ret = [kind |-> "pending", obj |-> 0]
    /\ exc = "none"
    /\ reason = "none"
    /\ kry = [prec |-> 0, flag |-> 0]
    /\ obs = [nSmooth |-> 0, nCoarse |-> 0, smooth |-> NoSmoothing,
              l2_true |-> 0, it0 |-> 0]
    /\ fld = NoField
    /\ par = NoPar
    /\ src = NoSource
    /\ sim = NoSim

CycleNext ==
    \/ MGParametersInit
    \/ GetEfield
    \/ MultigridMain
    \/ Finish
    \/ InitialSmoothing
    \/ WhileTest
    \/ CoarseSmooth
    \/ PreSmooth
    \/ Restrict
    \/ Prolong
    \/ PostSmooth
    \/ Count
    \/ Return

\* solver() is sequential code: a step that can be taken is taken.
SpecCycle == CycleInit /\ [][CycleNext]_vars /\ WF_vars(CycleNext)

----------------------------------------------------------------------------
(* fields.Field (src/emg3d/fields.py): a flat array and three views.  An    *)
(* array is a sequence of numbers <<re, im>>; a component is given in       *)
(* Fortran order, so that ravel('F') undoes reshape(order='F').             *)

\* Largest number of cells per axis of the meshes of a Field.
MaxCells == 2

\* Edges parallel to axis a of a mesh with the cells of shape: the node
\* count on the other two axes.
ShapeEdges(shape, a) ==
    [b \in 1..3 |-> IF b = a THEN shape[b] ELSE shape[b] + 1]

\* grid.n_edges_x, n_edges_y, n_edges_z (a = 1, 2, 3) and grid.n_edges.
NEdgesOf(shape, a) ==
    ShapeEdges(shape, a)[1] * ShapeEdges(shape, a)[2] * ShapeEdges(shape, a)[3]

NEdges(shape) == NEdgesOf(shape, 1) + NEdgesOf(shape, 2) + NEdgesOf(shape, 3)

\* Python's None.
PyNone == <<"none", 0>>

\* The dtype of a new Field, faulty variant: the data come first.
FieldDtype_dataFirst(data_dtype, frequency, dtype) ==
    IF data_dtype # "None" THEN data_dtype
    ELSE IF frequency # PyNone
    THEN (IF frequency[2] > 0 THEN "complex128"
          ELSE IF frequency[2] < 0 THEN "float64" ELSE "ValueError")
    ELSE IF dtype = "None" THEN "complex128" ELSE dtype

\* Lines 75-90: the dtype of a new Field; frequency first, then the data,
\* then the dtype argument; a frequency of zero raises ValueError.
FieldDtype(data_dtype, frequency, dtype) ==
    IF frequency # PyNone
    THEN (IF frequency[2] > 0 THEN "complex128"
          ELSE IF frequency[2] < 0 THEN "float64" ELSE "ValueError")
    ELSE IF data_dtype # "None" THEN data_dtype
    ELSE IF dtype = "None" THEN "complex128" ELSE dtype

\* numpy stores a number in an array of dtype dt: a real or integer array
\* keeps the real part only.
Cast(dt, z) == IF dt # "complex128" THEN <<z[1], 0>> ELSE z

CastAll(dt, a) == [k \in 1..Len(a) |-> Cast(dt, a[k])]

\* Lines 93-98: the array of a new Field, zeros or the data as dtype.
NewArray(shape, dt, data) ==
    IF data = <<>> THEN [k \in 1..NEdges(shape) |-> Zero] ELSE CastAll(dt, data)

\* A Python slice bound i on an array of n entries.
Bound(i, n) == IF i < 0 THEN (IF i + n < 0 THEN 0 ELSE i + n)
               ELSE IF i > n THEN n ELSE i

\* The entries a[start:stop] addresses, as <<first, last>> counted from 1.
Slice(n, start, stop) == <<Bound(start, n) + 1, Bound(stop, n)>>

\* Lines 182-184 and 189: self._field[:ix].
FxSlice(f) == Slice(Len(f.field), 0, NEdgesOf(f.shape, 1))

\* Faulty variant: the y-block runs to the end of the array.
FySlice_toEnd(f) ==
    Slice(Len(f.field), NEdgesOf(f.shape, 1), Len(f.field))

\* Lines 194-196 and 201: self._field[i0:-i1].
FySlice(f) ==
    Slice(Len(f.field), NEdgesOf(f.shape, 1), 0 - NEdgesOf(f.shape, 3))

\* Lines 205-206 and 211: self._field[-i0:].
FzSlice(f) ==
    Slice(Len(f.field), 0 - NEdgesOf(f.shape, 3), Len(f.field))

SliceOf(f, c) == IF c = "fx" THEN FxSlice(f)
                 ELSE IF c = "fy" THEN FySlice(f) ELSE FzSlice(f)

\* Lines 179-184, 191-196, 203-206: the getters, a view of the block.
Get(f, c) == SubSeq(f.field, SliceOf(f, c)[1], SliceOf(f, c)[2])

\* Lines 186-189, 198-201, 208-211: the setters; numpy stores the values
\* as the dtype of the array, and refuses a value of another size.
Set(f, c, v) ==
    LET sl == SliceOf(f, c)
    IN  IF Len(v) # sl[2] - sl[1] + 1
        THEN [f EXCEPT !.set = "ValueError", !.value = v, !.before = f.field]
        ELSE [f EXCEPT
                !.field = [k \in 1..Len(f.field) |->
                             IF sl[1] <= k /\ k <= sl[2]
                             THEN Cast(f.dtype, v[k - sl[1] + 1])
                             ELSE f.field[k]],
                !.set = c, !.value = v, !.before = f.field]

\* Arrays with entries that differ from place to place: numbered from
\* base, with or without imaginary parts.
Ramp(n, base, im) == [k \in 1..n |-> <<base + k, im * k>>]

Component(c) == IF c = "fx" THEN 1 ELSE IF c = "fy" THEN 2 ELSE 3

\* Field(grid, data, frequency, dtype) for meshes of up to MaxCells cells
\* per axis: the new instance, or none if __init__ raised.
FieldInit ==
    /\ \E nx \in 1..MaxCells, ny \in 1..MaxCells, nz \in 1..MaxCells :
       \E frequency \in {PyNone, PyInt(1), PyInt(-1), PyInt(0)},
          given \in BOOLEAN, dtype \in {"None", "int64"} :
          LET shape == <<nx, ny, nz>>
              data == IF given THEN Ramp(NEdges(shape), 0, 1) ELSE <<>>
              args == [frequency |-> frequency,
                       data |-> IF given THEN "complex128" ELSE "None",
                       dtype |-> dtype]
              dt == FieldDtype(args.data, frequency, dtype)
          IN  fld = IF dt = "ValueError"
                    THEN [NoField EXCEPT !.exc = dt, !.args = args]
                    ELSE [NoField EXCEPT !.shape = shape, !.dtype = dt,
                             !.field = NewArray(shape, dt, data),
                             !.args = args]
    /\ cfg = BaseCfg
    /\ pc = "start"
    /\ var = NullVar
    /\ stack = <<>>
    /\ heap = [o \in Objs |-> Zero]
    /\ ef = 0
    /\ do_run = TRUE
    /\ do_return = TRUE
    /\ ret = [kind |-> "pending", obj |-> 0]
    /\ exc = "none"
    /\ reason = "none"
    /\ kry = [prec |-> 0, flag |-> 0]
    /\ obs = [nSmooth |-> 0, nCoarse |-> 0, smooth |-> NoSmoothing,
              l2_true |-> 0, it0 |-> 0]
    /\ par = NoPar
    /\ src = NoSource
    /\ sim = NoSim

\* The arrays assigned: of the shape of component c of Field f, real or
\* complex, with other numbers for each component.
Values(f, c) ==
    {Ramp(NEdgesOf(f.shape, Component(c)), 10 * Component(c), im) :
        im \in {0, 1}}

\* field.fx = v.
SetFx ==
    /\ fld.dtype # "none"
    /\ \E v \in Values(fld, "fx") : fld' = Set(fld, "fx", v)
    /\ UNCHANGED <<cfg, pc, var, stack, heap, ef, do_run, do_return, ret, exc,
                   reason, kry, obs, par,
                 src, sim>>

\* field.fy = v.
SetFy ==
    /\ fld.dtype # "none"
    /\ \E v \in Values(fld, "fy") : fld' = Set(fld, "fy", v)
    /\ UNCHANGED <<cfg, pc, var, stack, heap, ef, do_run, do_return, ret, exc,
                   reason, kry, obs, par,
                 src, sim>>

\* field.fz = v.
SetFz ==
    /\ fld.dtype # "none"
    /\ \E v \in Values(fld, "fz") : fld' = Set(fld, "fz", v)
    /\ UNCHANGED <<cfg, pc, var, stack, heap, ef, do_run, do_return, ret, exc,
                   reason, kry, obs, par,
                 src, sim>>

FieldNext == SetFx \/ SetFy \/ SetFz

SpecField == FieldInit /\ [][FieldNext]_vars

----------------------------------------------------------------------------
(* Two solver() calls side by side, on the same grid and model and with    *)
(* their own source and electric fields.  A call is followed cycle by       *)
(* cycle; the residual norms its kernels and its Krylov library produce     *)
(* are a function of the call's own fields, given as a repeating pattern.   *)

\* The two calls.
Solves == {1, 2}

\* Line 297: `var = MGParameters(...)` binds a local name of the call to a
\* new instance.
VarObj(p) == p

\* The iterators of all calls are one pair of objects (faulty variant).
CycleObj_shared(p, which) == which

\* Lines 1206, 1212 and 1236, 1242: `self.rcycle = cycle(rcycle)` (which = 1)
\* and `self.lcycle = cycle(lcycle)` (which = 2) are new iterators, held by
\* the instance.
CycleObj(p, which) == 2 * (p - 1) + which

\* The k-th residual norm computed in a call with input i.
NormAt(i, k) == i.pattern[((k - 1) % Len(i.pattern)) + 1]

\* The call with input i before its first step.
SoloInit(i) ==
    [c |-> i.c, pattern |-> i.pattern, pc |-> "start", v |-> NullVar,
     f |-> Entry(0, 0, NullVar, i.c.vnC, 0, 0, 0), k |-> 0, log |-> <<>>,
     reason |-> "none"]

\* Lines 297 and 326-432: the settings object, and the main solver.
StartStep(s) ==
    LET v == PostInit(s.c)
    IN  [s EXCEPT !.v = v,
                  !.f = Entry(0, 0, v, s.c.vnC, s.c.refe, s.c.refe, 0),
                  !.pc = IF MainSolver(TRUE, v.sslsolver) = "mg" THEN "cycle"
                         ELSE IF v.cycle # "None" THEN "kprec" ELSE "kcb"]

\* Lines 357-365: mg_matvec calls multigrid() on a new zero field.
PrecStep(s) ==
    LET b == NormAt(s, s.k + 1)
    IN  [s EXCEPT !.f = Entry(0, 0, s.v, s.c.vnC, b, b, 0), !.k = @ + 1,
                  !.pc = "cycle"]

\* Lines 550-635: one cycle on the original grid, in the directions
\* var.rdir and var.ldir, and the new error; if the original grid is the
\* coarsest one the error is computed only if verb > 3 (lines 564-566).
CycleStep(s) ==
    [s EXCEPT !.f = [@ EXCEPT !.l2_prev = s.f.l2_last,
                              !.l2_last =
                                  IF s.v.clevel[s.v.rdir + 1] = 0
                                        /\ s.v.verb <= 3
                                  THEN @ ELSE NormAt(s, s.k + 1)],
              !.k = @ + 1,
              !.log = Append(@, <<s.v.rdir, s.v.ldir>>),
              !.pc = "count"]

\* Lines 637-739: the counters, the direction cycles, the termination.
CountStep(s) ==
    LET it == s.f.it + 1
        why == ExitReason(it, s.f, s.v)
        v == Advance([s.v EXCEPT !.it = @ + 1])
    IN  [s EXCEPT !.f = [@ EXCEPT !.it = it],
                  !.v = [v EXCEPT !.first_cycle =
                            IF why = "none" THEN FALSE ELSE @],
                  !.reason = IF why \in {"none", "prec_done"} THEN @ ELSE why,
                  !.pc = IF why = "none" THEN "cycle" ELSE "ret"]

\* Lines 741-742 and 368: the error is stored, multigrid() returns.
ReturnStep(s) ==
    [s EXCEPT !.v = [@ EXCEPT !.l2 = s.f.l2_last,
                              !.first_cycle =
                                  IF s.v.sslsolver # "False" THEN FALSE ELSE @],
              !.pc = IF s.v.sslsolver = "False" THEN "done" ELSE "kcb"]

\* Lines 379-400: the callback; the library goes on until the error is
\* small or ssl_maxit is reached.
CallbackStep(s) ==
    LET n == NormAt(s, s.k + 1)
        last == s.v.ssl_it + 1 >= s.v.ssl_maxit
                    \/ GoodEnough(n, s.v.tolInv, s.c.refe)
    IN  [s EXCEPT !.v = [@ EXCEPT !.ssl_it = @ + 1,
                                  !.l2 = IF s.v.verb > 2 THEN n ELSE @],
                  !.k = @ + 1,
                  !.pc = IF last THEN "kret"
                         ELSE IF s.v.cycle # "None" THEN "kprec" ELSE "kcb"]

\* Lines 403-422: the library returns.
KrylovReturnStep(s) ==
    LET n == NormAt(s, s.k + 1)
    IN  [s EXCEPT !.v = [@ EXCEPT !.l2 = IF s.v.verb < 3 THEN n ELSE @],
                  !.k = @ + 1,
                  !.reason = IF GoodEnough(n, s.v.tolInv, s.c.refe)
                             THEN "ssl_converged" ELSE "ssl_maxit",
                  !.pc = "done"]

\* The next step of a call.
Step(s) ==
    CASE s.pc = "start" -> StartStep(s)
      [] s.pc = "kprec" -> PrecStep(s)
      [] s.pc = "cycle" -> CycleStep(s)
      [] s.pc = "count" -> CountStep(s)
      [] s.pc = "ret"   -> ReturnStep(s)
      [] s.pc = "kcb"   -> CallbackStep(s)
      [] s.pc = "kret"  -> KrylovReturnStep(s)
      [] OTHER          -> s

\* The call p as it sees itself: its local names, its MGParameters
\* instance and the positions of the two iterators of that instance.
View(p) ==
    [par.loc[p] EXCEPT !.v =
        [par.objs[VarObj(p)] EXCEPT !.rpos = par.iters[CycleObj(p, 1)],
                                    !.lpos = par.iters[CycleObj(p, 2)]]]

\* The state after call p has moved to t.
StoredAll(p, t) ==
    LET q == [par EXCEPT !.loc[p] = t, !.objs[VarObj(p)] = t.v, !.n[p] = @ + 1]
        r == [q.iters EXCEPT ![CycleObj(p, 1)] = t.v.rpos]
    IN  [q EXCEPT !.iters = [r EXCEPT ![CycleObj(p, 2)] = t.v.lpos]]

\* The inputs of a call: multigrid alone or as preconditioner of a Krylov
\* solver, fixed or cycling directions, and residual norms that converge,
\* stagnate or diverge.
ParInputs ==
    {[c |-> [BaseCfg EXCEPT !.cycle = "V", !.vnC = <<8, 8, 8>>,
                            !.sslsolver = k, !.semicoarsening = r[1],
                            !.linerelaxation = r[2],
                            !.maxit = IF k = "False" THEN MaxIt ELSE 2,
                            !.verb = 3, !.tolInv = 2],
      pattern |-> t] :
        k \in {"False", "True"},
        r \in {<<PyFalse, PyFalse>>, <<PyInt(123), PyInt(45)>>},
        t \in {<<1, 0>>, <<2, 2, 2>>, <<1, BigNorm>>}}

\* Both calls are about to start.
ParInit ==
    /\ \E i1 \in ParInputs, i2 \in ParInputs :
          par = [inp |-> <<i1, i2>>,
                 loc |-> <<SoloInit(i1), SoloInit(i2)>>,
                 objs |-> <<NullVar, NullVar>>,
                 iters |-> <<1, 1, 1, 1>>,
                 n |-> <<0, 0>>]
    /\ cfg = BaseCfg
    /\ pc = "start"
    /\ var = NullVar
    /\ stack = <<>>
    /\ heap = [o \in Objs |-> Zero]
    /\ ef = 0
    /\ do_run = TRUE
    /\ do_return = TRUE
    /\ ret = [kind |-> "pending", obj |-> 0]
    /\ exc = "none"
    /\ reason = "none"
    /\ kry = [prec |-> 0, flag |-> 0]
    /\ obs = [nSmooth |-> 0, nCoarse |-> 0, smooth |-> NoSmoothing,
              l2_true |-> 0, it0 |-> 0]
    /\ fld = NoField
    /\ src = NoSource
    /\ sim = NoSim

\* Call p constructs its settings object.
ParStart ==
    /\ \E p \in Solves :
          /\ View(p).pc = "start"
          /\ par' = StoredAll(p, StartStep(View(p)))
    /\ UNCHANGED <<cfg, pc, var, stack, heap, ef, do_run, do_return, ret, exc,
                   reason, kry, obs, fld,
                 src, sim>>

\* The library of call p applies the preconditioner.
ParPrecondition ==
    /\ \E p \in Solves :
          /\ View(p).pc = "kprec"
          /\ par' = StoredAll(p, PrecStep(View(p)))
    /\ UNCHANGED <<cfg, pc, var, stack, heap, ef, do_run, do_return, ret, exc,
                   reason, kry, obs, fld,
                 src, sim>>

\* Call p runs a cycle.
ParCycle ==
    /\ \E p \in Solves :
          /\ View(p).pc = "cycle"
          /\ par' = StoredAll(p, CycleStep(View(p)))
    /\ UNCHANGED <<cfg, pc, var, stack, heap, ef, do_run, do_return, ret, exc,
                   reason, kry, obs, fld,
                 src, sim>>

\* Call p counts the cycle and tests for termination.
ParCount ==
    /\ \E p \in Solves :
          /\ View(p).pc = "count"
          /\ par' = StoredAll(p, CountStep(View(p)))
    /\ UNCHANGED <<cfg, pc, var, stack, heap, ef, do_run, do_return, ret, exc,
                   reason, kry, obs, fld,
                 src, sim>>

\* multigrid() of call p returns.
ParReturn ==
    /\ \E p \in Solves :
          /\ View(p).pc = "ret"
          /\ par' = StoredAll(p, ReturnStep(View(p)))
    /\ UNCHANGED <<cfg, pc, var, stack, heap, ef, do_run, do_return, ret, exc,
                   reason, kry, obs, fld,
                 src, sim>>

\* The library of call p reports an iteration.
ParCallback ==
    /\ \E p \in Solves :
          /\ View(p).pc = "kcb"
          /\ par' = StoredAll(p, CallbackStep(View(p)))
    /\ UNCHANGED <<cfg, pc, var, stack, heap, ef, do_run, do_return, ret, exc,
                   reason, kry, obs, fld,
                 src, sim>>

\* The library of call p returns.
ParKrylovReturn ==
    /\ \E p \in Solves :
          /\ View(p).pc = "kret"
          /\ par' = StoredAll(p, KrylovReturnStep(View(p)))
    /\ UNCHANGED <<cfg, pc, var, stack, heap, ef, do_run, do_return, ret, exc,
                   reason, kry, obs, fld,
                 src, sim>>

ParNext ==
    \/ ParStart
    \/ ParPrecondition
    \/ ParCycle
    \/ ParCount
    \/ ParReturn
    \/ ParCallback
    \/ ParKrylovReturn

SpecPar == ParInit /\ [][ParNext]_vars

\* The inputs of a multigrid solve, but for the verbosity: grids with and
\* without coarser grids, fixed and cycling directions.
VerbInputs ==
    {[c |-> [BaseCfg EXCEPT !.cycle = "V", !.vnC = g,
                            !.semicoarsening = r[1], !.linerelaxation = r[2],
                            !.maxit = MaxIt, !.tolInv = 2],
      pattern |-> t] :
        g \in {<<8, 8, 8>>, <<2, 2, 2>>},
        r \in {<<PyFalse, PyFalse>>, <<PyInt(123), PyInt(45)>>},
        t \in {<<1, 0>>, <<2, 2, 2>>, <<1, BigNorm>>, <<2, 1, 1>>}}

\* With verbosity verb.
WithVerb(i, verb) == [i EXCEPT !.c = [@ EXCEPT !.verb = verb]]

\* Two solves on the same inputs that differ in verb only.
VerbInit ==
    /\ \E i \in VerbInputs, v1 \in -1..4, v2 \in -1..4 :
          /\ v1 < v2
          /\ par = [inp |-> <<WithVerb(i, v1), WithVerb(i, v2)>>,
                    loc |-> <<SoloInit(WithVerb(i, v1)),
                              SoloInit(WithVerb(i, v2))>>,
                    objs |-> <<NullVar, NullVar>>,
                    iters |-> <<1, 1, 1, 1>>,
                    n |-> <<0, 0>>]
    /\ cfg = BaseCfg
    /\ pc = "start"
    /\ var = NullVar
    /\ stack = <<>>
    /\ heap = [o \in Objs |-> Zero]
    /\ ef = 0
    /\ do_run = TRUE
    /\ do_return = TRUE
    /\ ret = [kind |-> "pending", obj |-> 0]
    /\ exc = "none"
    /\ reason = "none"
    /\ kry = [prec |-> 0, flag |-> 0]
    /\ obs = [nSmooth |-> 0, nCoarse |-> 0, smooth |-> NoSmoothing,
              l2_true |-> 0, it0 |-> 0]
    /\ fld = NoField
    /\ src = NoSource
    /\ sim = NoSim

VerbNext == ParStart \/ ParCycle \/ ParCount \/ ParReturn

SpecVerb == VerbInit /\ [][VerbNext]_vars

----------------------------------------------------------------------------
(* fields.get_source_field: the segments of a source are added one by one. *)
(* Coordinates are integers; one step of np.round(..., decimals) is three   *)
(* of them, and the grid nodes are multiples of three.                      *)

\* Index of the last node of each axis of the grid (the first is 0).
MaxNode == 2

\* Lines 650-652: grid.nodes_x, nodes_y, nodes_z, the same on every axis.
Nodes == [k \in 1..(MaxNode + 1) |-> 3 * (k - 1)]

\* Lines 649-653: np.round(x, decimals).
Round(x) == 3 * ((x + 1) \div 3)

RoundPoint(q) == [a \in 1..3 |-> Round(q[a])]

\* Lines 655-660 of _unit_dipole_vector: the first point is compared with
\* the first node, the second point with the last node, after rounding.
Outside(p0, p1) ==
    \E a \in 1..3 : \/ RoundPoint(p0)[a] < Nodes[1]
                    \/ RoundPoint(p1)[a] > Nodes[Len(Nodes)]

\* Lines 606-612 of get_dipole_source_field: a segment without length.
NoLength(p0, p1) == p0 = p1

\* Lines 606-616 and 655-660: what the call for one segment raises, if
\* anything.
SegmentError(p0, p1) ==
    IF NoLength(p0, p1) THEN "ValueError: no length"
    ELSE IF Outside(p0, p1) THEN "ValueError: outside grid"
    ELSE "none"

\* Coordinates below the grid, inside it and above it, and two that the
\* rounding moves onto the outermost nodes.
CoordsX == {-3, -1, 3, 3 * MaxNode + 1, 3 * MaxNode + 3}

CoordsYZ == {-3, 3, 3 * MaxNode + 3}

SourcePoints == {<<x, y, z>> : x \in CoordsX, y \in CoordsYZ, z \in CoordsYZ}

\* Lines 382-399: get_source_field is called for a dipole, or for a
\* source of two segments; the source field is zero.
SourceInit ==
    /\ \E p0 \in SourcePoints, p1 \in SourcePoints :
       \E more \in {<<>>, <<<<3, 3, 3>>>>, <<<<3 * MaxNode + 3, 3, 3>>>>} :
          src = [points |-> <<p0, p1>> \o more, i |-> 0, added |-> <<>>,
                 exc |-> "none", out |-> "pending"]
    /\ cfg = BaseCfg
    /\ pc = "start"
    /\ var = NullVar
    /\ stack = <<>>
    /\ heap = [o \in Objs |-> Zero]
    /\ ef = 0
    /\ do_run = TRUE
    /\ do_return = TRUE
    /\ ret = [kind |-> "pending", obj |-> 0]
    /\ exc = "none"
    /\ reason = "none"
    /\ kry = [prec |-> 0, flag |-> 0]
    /\ obs = [nSmooth |-> 0, nCoarse |-> 0, smooth |-> NoSmoothing,
              l2_true |-> 0, it0 |-> 0]
    /\ fld = NoField
    /\ par = NoPar
    /\ sim = NoSim

\* Lines 401-404 and 606-623: the field of the next segment is computed and
\* added to the source field, unless the computation raises.
SourceSegment ==
    /\ src.out = "pending"
    /\ src.exc = "none"
    /\ src.i < Len(src.points) - 1
    /\ LET k == src.i + 1
           err == SegmentError(src.points[k], src.points[k + 1])
       IN  src' = IF err = "none"
                  THEN [src EXCEPT !.i = k, !.added = Append(@, k)]
                  ELSE [src EXCEPT !.i = k, !.exc = err, !.out = "none"]
    /\ UNCHANGED <<cfg, pc, var, stack, heap, ef, do_run, do_return, ret, exc,
                   reason, kry, obs, fld, par, sim>>

\* Lines 406-417: the sum is scaled and returned.
SourceReturn ==
    /\ src.out = "pending"
    /\ src.exc = "none"
    /\ src.i = Len(src.points) - 1
    /\ src' = [src EXCEPT !.out = "sfield"]
    /\ UNCHANGED <<cfg, pc, var, stack, heap, ef, do_run, do_return, ret, exc,
                   reason, kry, obs, fld, par, sim>>

SourceNext == SourceSegment \/ SourceReturn

SpecSource == SourceInit /\ [][SourceNext]_vars

----------------------------------------------------------------------------
(* Properties.                                                              *)

\* The level-0 call of multigrid() as main solver.
MainCall == stack[1]

\* Multigrid is the main solver and a top-level cycle has just been counted.
AfterCycle ==
    /\ pc = "mg"
    /\ Len(stack) = 1
    /\ MainCall.it >= 1
    /\ MainCall.pc \in {"while", "ret"}

\* Multigrid was the main solver and has returned.
MainReturned == pc \in {"finish", "done"} /\ do_run /\ cfg.sslsolver = "False"

\* C1: with multigrid as the main solver and maxit >= 1 the top-level loop
\* never runs more than maxit cycles, has ended once maxit cycles are
\* counted, and ends only after at least one cycle, whatever the residual
\* norms are (NaN included).
C1_AtMostMaxitCycles ==
    /\ (pc = "mg" /\ cfg.maxit >= 1) =>
          /\ MainCall.it <= cfg.maxit
          /\ var.it = MainCall.it
          /\ (MainCall.it = cfg.maxit => MainCall.pc = "ret")
          /\ (MainCall.pc = "ret" => MainCall.it >= 1)
    /\ (MainReturned /\ cfg.maxit >= 1) => (1 <= var.it /\ var.it <= cfg.maxit)

\* C1, witness: all norms NaN, the loop has ended after maxit = MaxIt cycles.
C1_Witness ==
    /\ pc = "mg"
    /\ MainCall.pc = "ret"
    /\ MainCall.l2_last = NaN
    /\ MainCall.l2_init = NaN
    /\ cfg.maxit > 1
    /\ MainCall.it = cfg.maxit
    /\ reason = "maxit"

NeitherConvergedNorDiverged ==
    /\ ~Lt(Times(cfg.tolInv, MainCall.l2_last), cfg.refe)
    /\ ~Gt(MainCall.l2_last, Times(10, MainCall.l2_init))

EndedBy(why) == pc = "done" /\ reason = why

\* solver() handed back an info record with this exit code.
HandsBackExitCode(code) == ret.kind = "field_and_info" /\ ret.exit_code = code

\* C4 as stated: a solve that ends by max-iter, stagnation or divergence
\* hands back the field together with an info record whose exit code is 1,
\* 2 or 3; 0 for a converged solve, -2 for a Krylov error flag.
C4_ExitCodes ==
    /\ (EndedBy("maxit") \/ EndedBy("ssl_maxit")) => HandsBackExitCode(1)
    /\ EndedBy("stagnated") => HandsBackExitCode(2)
    /\ EndedBy("diverged") => HandsBackExitCode(3)
    /\ (EndedBy("converged") \/ EndedBy("ssl_converged")) => HandsBackExitCode(0)
    /\ EndedBy("ssl_error") => HandsBackExitCode(-2)

C6_SuppliedFieldHoldsResult ==
    pc = "done" =>
        /\ (ret.kind = "field") <=> ~cfg.supplied
        /\ cfg.supplied => (ret.kind = "none" /\ heap[Caller] = heap[ef])

\* The complex conjugate, written out.
Conjugate(z) == IF z[2] = 0 THEN z ELSE IF z[2] = 1 THEN <<z[1], -1>> ELSE <<z[1], 1>>

\* C7: solver() conjugates a supplied initial field on entry and conjugates
\* the field again on exit, so that on the early-exit path the caller's
\* field holds exactly the values that were supplied.
C7_ConjugateTwice ==
    [][/\ (pc = "getfield" /\ cfg.supplied)
            => heap'[Caller] = Conjugate(heap[Caller])
       /\ pc = "finish" => heap'[ef] = Conjugate(heap[ef])
       /\ (pc = "finish" /\ ~do_run) => (ef = Caller /\ heap'[Caller] = cfg.E0)
      ]_vars

\* C7, witness: an early exit with a supplied field that is not real.
C7_Witness ==
    /\ pc = "done"
    /\ ~do_run
    /\ cfg.supplied
    /\ cfg.E0 = <<1, 1>>
    /\ heap[Caller] = <<1, 1>>

\* The number n (given as <<"int", n>>) has a decimal digit above top.
HasDigitAbove(x, top) ==
    x[1] = "int" /\ \E p \in 0..4 : ((x[2] \div (10^p)) % 10) > top

\* The misconfigurations that C8 lists.
Misconfigured(c) ==
    \/ c.cycle \notin {"F", "V", "W", "None"}
    \/ c.sslsolver \notin {"True", "False", "bicgstab", "cgs", "gmres",
                           "lgmres", "gcrotmk"}
    \/ (c.cycle = "None" /\ c.sslsolver = "False")
    \/ HasDigitAbove(c.semicoarsening, 3)
    \/ HasDigitAbove(c.linerelaxation, 7)
    \/ c.vnC[1] < 2 \/ c.vnC[2] < 2 \/ c.vnC[3] < 2

\* C8: a misconfigured call raises ValueError before the supplied efield is
\* conjugated or modified and before any smoothing.
C8_MisconfigurationFatal ==
    (Misconfigured(cfg) /\ pc # "start") =>
        /\ pc = "raised"
        /\ exc = "ValueError"
        /\ heap[Caller] = cfg.E0
        /\ ef = 0
        /\ obs.nSmooth = 0
        /\ stack = <<>>

\* C8, witness: a grid with a one-cell axis, all else valid, a supplied field.
C8_Witness ==
    /\ pc = "raised"
    /\ cfg.supplied
    /\ cfg.E0 = <<1, 1>>
    /\ cfg.vnC = <<4, 2, 1>>
    /\ cfg.cycle = "F"
    /\ cfg.sslsolver = "False"
    /\ cfg.semicoarsening = PyFalse
    /\ cfg.linerelaxation = PyFalse

\* The coarsest level of the hierarchy of the current top-level cycle.
CoarsestLevel == var.clevel[var.rdir + 1]

\* The body of a top-level cycle is complete and about to be counted.
CycleComplete == InMultigrid /\ Len(stack) = 1 /\ stack[1].pc = "count"

\* C9: within one top-level cycle on a hierarchy with coarsest level L >= 1
\* the coarsest grid is smoothed once for a V-cycle, L times for an F-cycle
\* and 2^(L-1) times for a W-cycle.
C9_CoarsestVisits ==
    (CycleComplete /\ CoarsestLevel >= 1) =>
        obs.nCoarse = (IF cfg.cycle = "V" THEN 1
                       ELSE IF cfg.cycle = "F" THEN CoarsestLevel
                       ELSE 2^(CoarsestLevel - 1))

\* C9, witness: an F-cycle on four grids with three coarsest-grid visits.
C9_Witness ==
    /\ CycleComplete
    /\ cfg.cycle = "F"
    /\ CoarsestLevel = 3
    /\ obs.nCoarse = 3

\* The schedule that C10 gives for a semicoarsening or linerelaxation input.
Schedule(x, first) ==
    IF x = PyTrue THEN first
    ELSE IF x = PyFalse THEN <<0>>
    ELSE IF x = PyInt(13) THEN <<1, 3>>
    ELSE IF x = PyInt(46) THEN <<4, 6>>
    ELSE IF x = PyInt(1213) THEN <<1, 2, 1, 3>>
    ELSE <<x[2]>>

\* Entry k mod |s| of schedule s, counting from 0.
ScheduleAt(s, k) == s[(k % Len(s)) + 1]

\* C10: during the k-th top-level cycle run with one parameter object
\* (k = var.it completed cycles), var.rdir = R[k mod |R|] and
\* var.ldir = L[k mod |L|]; nothing else changes them.
C10_DirectionSchedules ==
    pc \notin {"start", "raised"} =>
        /\ var.rdir = ScheduleAt(Schedule(cfg.semicoarsening, <<1, 2, 3>>), var.it)
        /\ var.ldir = ScheduleAt(Schedule(cfg.linerelaxation, <<4, 5, 6>>), var.it)

\* C10, witness: inside the sixth cycle (k = 5) of schedules of length 4 and 3.
C10_Witness ==
    /\ InMultigrid
    /\ Top.pc = "coarse"
    /\ var.it = 5
    /\ cfg.semicoarsening = PyInt(1213)
    /\ cfg.linerelaxation = PyTrue
    /\ var.rdir = 2
    /\ var.ldir = 6

\* multigrid() has been called by mg_matvec and has not returned yet.
InPreconditioner == pc = "krylov" /\ stack # <<>>

\* The number of cycles C11 gives for one application of the preconditioner.
PrecCycles ==
    Max2(Len(Schedule(cfg.semicoarsening, <<1, 2, 3>>)),
         Len(Schedule(cfg.linerelaxation, <<4, 5, 6>>)))

\* C11: with sslsolver and cycle both set, every application of the
\* preconditioner starts from a zero field with the given right-hand side
\* and runs exactly max(len(semicoarsening cycle), len(linerelaxation
\* cycle)) multigrid cycles whatever the residual norms are, and the user's
\* maxit limits only the Krylov iterations.
C11_PreconditionerCycles ==
    /\ (pc \in {"krylov", "finish", "done"} /\ var.sslsolver # "False") =>
          /\ var.ssl_maxit = cfg.maxit
          /\ var.ssl_it <= cfg.maxit
    /\ InPreconditioner =>
          /\ cfg.cycle # "None"
          /\ stack[1].fobj = PrecField
          /\ stack[1].l2_init = stack[1].l2_refe
          /\ (stack[1].pc = "init" => heap[PrecField] = Zero)
          /\ stack[1].it <= PrecCycles
          /\ (stack[1].pc = "ret" <=> stack[1].it = PrecCycles)
          /\ reason = "none"

\* C11, witness: the residual norm is below the tolerance after the first
\* of three cycles of a preconditioner run, which goes on.
C11_Witness ==
    /\ InPreconditioner
    /\ Len(stack) = 1
    /\ PrecCycles = 3
    /\ cfg.maxit = 1
    /\ stack[1].it = 1
    /\ stack[1].pc = "while"
    /\ Converged(stack[1], var)

\* Axis a of a grid of this shape may be halved under semicoarsening rdir.
Qualifies(shape, a, rdir) == shape[a] % 2 = 0 /\ shape[a] >= 3 /\ a # rdir

\* The axes that a code of restriction() and prolongation() names as halved.
HalvedAxes(code) ==
    CASE code = 0 -> {1, 2, 3}
      [] code = 1 -> {2, 3}
      [] code = 2 -> {1, 3}
      [] code = 3 -> {1, 2}
      [] code = 4 -> {1}
      [] code = 5 -> {2}
      [] code = 6 -> {3}

\* C12: in every restriction an axis is halved iff its cell count is even,
\* at least 3, and it is not the semicoarsening axis var.rdir; the code
\* handed to restriction() and prolongation() names exactly those axes, and
\* there is no restriction when no axis qualifies.
C12_HalvedAxes ==
    /\ (InMultigrid /\ Top.pc = "restrict") =>
          \E a \in 1..3 : Qualifies(Top.shape, a, var.rdir)
    /\ \A i \in 1..(Len(stack) - 1) :
          /\ stack[i].pc = "prolong"
          /\ \E a \in 1..3 : Qualifies(stack[i].shape, a, var.rdir)
          /\ \A a \in 1..3 :
                /\ (a \in HalvedAxes(stack[i].rcode))
                      <=> Qualifies(stack[i].shape, a, var.rdir)
                /\ stack[i + 1].shape[a] =
                      IF Qualifies(stack[i].shape, a, var.rdir)
                      THEN stack[i].shape[a] \div 2 ELSE stack[i].shape[a]

\* C12, witness: on an 8 x 4 x 2 grid with semicoarsening along x only the
\* y axis has been halved.
C12_Witness ==
    /\ Len(stack) = 2
    /\ var.rdir = 1
    /\ stack[1].shape = <<8, 4, 2>>
    /\ stack[1].rcode = 5
    /\ stack[2].shape = <<8, 2, 2>>

\* The largest n such that N is divisible by 2^n with a quotient of at
\* least 2 (N >= 2).
LargestHalving(N) ==
    LET S == {n \in 0..8 : N % (2^n) = 0 /\ N \div (2^n) >= 2}
    IN  CHOOSE n \in S : \A m \in S : m <= n

\* The level of axis a that C13 gives.
AxisLevelClaimed(a) ==
    LET n == LargestHalving(cfg.vnC[a])
    IN  IF cfg.clevel >= 0 /\ cfg.clevel < n THEN cfg.clevel ELSE n

\* The largest element of a non-empty set of numbers.
Largest(S) == CHOOSE n \in S : \A m \in S : m <= n

\* C13: for every shape with at least 2 cells per axis max_level sets the
\* level of an axis to the largest n such that the cell count is divisible
\* by 2^n with quotient at least 2, capped by clevel if clevel >= 0;
\* var.clevel[0] is the maximum over the three axes and var.clevel[r] the
\* maximum over the two axes other than r.
C13_MaxLevel ==
    pc \notin {"start", "raised"} =>
        /\ var.clevel[1] = Largest({AxisLevelClaimed(a) : a \in 1..3})
        /\ \A r \in 1..3 :
              var.clevel[r + 1] =
                  Largest({AxisLevelClaimed(a) : a \in (1..3) \ {r}})

\* C13, witness: an 8 x 6 x 2 grid has the levels 2, 1 and 0.
C13_Witness ==
    /\ pc = "getfield"
    /\ cfg.vnC = <<8, 6, 2>>
    /\ cfg.clevel = -1
    /\ var.clevel = <<2, 1, 2, 2>>

\* The axes along which a value of ldir asks for line relaxation.
LineAxes(ldir) ==
    CASE ldir = 0 -> {}
      [] ldir = 1 -> {1}
      [] ldir = 2 -> {2}
      [] ldir = 3 -> {3}
      [] ldir = 4 -> {2, 3}
      [] ldir = 5 -> {1, 3}
      [] ldir = 6 -> {1, 2}
      [] ldir = 7 -> {1, 2, 3}

\* The line smoothers of a set of axes in the order x, y, z; the pointwise
\* Gauss-Seidel smoother if the set is empty.
SmoothersOf(axes) ==
    IF axes = {} THEN <<"gauss_seidel">>
    ELSE (IF 1 \in axes THEN <<"gauss_seidel_x">> ELSE <<>>)
             \o (IF 2 \in axes THEN <<"gauss_seidel_y">> ELSE <<>>)
             \o (IF 3 \in axes THEN <<"gauss_seidel_z">> ELSE <<>>)

\* C14: for every ldir in 0..7 and every grid, smoothing() applies line
\* relaxation along exactly the axes requested by ldir minus the axes that
\* have exactly 2 cells, in the order x, y, z, and the pointwise smoother
\* iff that set of axes is empty.
C14_LineRelaxationAxes ==
    obs.smooth.where # "none" =>
        obs.smooth.calls =
            SmoothersOf({a \in LineAxes(obs.smooth.ldir) :
                            obs.smooth.shape[a] # 2})

\* C14, witness: ldir = 7 on a 4 x 2 x 4 grid relaxes along x and z.
C14_Witness ==
    /\ obs.smooth.where = "pre"
    /\ obs.smooth.ldir = 7
    /\ obs.smooth.shape = <<4, 2, 4>>
    /\ obs.smooth.calls = <<"gauss_seidel_x", "gauss_seidel_z">>

\* C15: on the coarsest grid linerelaxation is not respected unless it is
\* 0: if it is bigger than zero, the smoothing on the coarsest grid relaxes
\* along all dimensions that have more than 2 cells, whatever ldir is.
C15_CoarsestGridAllAxes ==
    obs.smooth.where = "coarse" =>
        obs.smooth.calls =
            IF cfg.linerelaxation[2] > 0
            THEN SmoothersOf({a \in 1..3 : obs.smooth.shape[a] > 2})
            ELSE <<"gauss_seidel">>

TopLevelReturns == InMultigrid /\ Len(stack) = 1 /\ Top.pc = "ret"

\* C18: on return from a top-level multigrid() call var.it has grown by the
\* number of top-level cycles that were run and var.l2 is the l2-norm of
\* the residual of the field left in efield, for every verbosity and every
\* grid, also if level 0 is the coarsest level.
C18_ErrorAndCountOnReturn ==
    [][TopLevelReturns =>
          /\ var'.it = obs.it0 + Top.it
          /\ var'.l2 = obs.l2_true]_vars

\* solver() is past its Krylov run.
AfterKrylov ==
    /\ pc \in {"finish", "done"}
    /\ reason \in {"ssl_error", "ssl_maxit", "ssl_converged"}

\* C19: after every Krylov run, for every verbosity and every Krylov solver,
\* var.l2 is the l2-norm of the residual of the field the run returned.
C19_FinalErrorRecomputed == AfterKrylov => var.l2 = obs.l2_true

\* The places of the flat array a component addresses.
Block(f, c) == SliceOf(f, c)[1]..SliceOf(f, c)[2]

\* The three blocks lie one after the other in the order x, y, z, have the
\* sizes n_edges_x, n_edges_y, n_edges_z and cover the array.
BlocksPartition(f) ==
    /\ SliceOf(f, "fx") = <<1, NEdgesOf(f.shape, 1)>>
    /\ SliceOf(f, "fy") =
          <<NEdgesOf(f.shape, 1) + 1, NEdgesOf(f.shape, 1) + NEdgesOf(f.shape, 2)>>
    /\ SliceOf(f, "fz") =
          <<NEdgesOf(f.shape, 1) + NEdgesOf(f.shape, 2) + 1, Len(f.field)>>
    /\ Len(f.field) = NEdges(f.shape)
    /\ \A c \in {"fx", "fy", "fz"} : Len(Get(f, c)) = NEdgesOf(f.shape, Component(c))

\* The Field before the last assignment.
Before == [fld EXCEPT !.field = fld.before]

Assigned == fld.set \in {"fx", "fy", "fz"}

\* The last assignment changed no place outside its own block and left the
\* other two components as they were.
OnlyOwnBlock ==
    /\ \A k \in 1..Len(fld.field) :
          k \notin Block(fld, fld.set) => fld.field[k] = fld.before[k]
    /\ \A c \in {"fx", "fy", "fz"} \ {fld.set} : Get(fld, c) = Get(Before, c)

\* C20: fx, fy and fz address three disjoint contiguous blocks of sizes
\* n_edges_x, n_edges_y, n_edges_z, in this order, which cover the flat
\* field; an assignment through a setter changes only its own block, leaves
\* the other two components unchanged and reads back as the value assigned.
C20_ComponentBlocks ==
    /\ BlocksPartition(fld)
    /\ Assigned => /\ OnlyOwnBlock
                   /\ Get(fld, fld.set) = fld.value

\* C20 as it holds: the same, and the component reads back as the value
\* assigned converted to the dtype of the field, which is the value itself
\* if it is of that dtype.
C20_ComponentBlocksCast ==
    /\ BlocksPartition(fld)
    /\ Assigned => /\ OnlyOwnBlock
                   /\ Get(fld, fld.set) = CastAll(fld.dtype, fld.value)
                   /\ (CastAll(fld.dtype, fld.value) = fld.value
                          => Get(fld, fld.set) = fld.value)

\* An assignment of a complex array to the y-component of a real Field whose
\* other components are not zero.
C20_Witness ==
    /\ fld.set = "fy"
    /\ fld.dtype = "float64"
    /\ fld.shape = <<2, 1, 2>>
    /\ fld.value # CastAll(fld.dtype, fld.value)
    /\ Get(fld, "fx") # Get(fld, "fz")
    /\ fld.before # fld.field
    /\ \E k \in Block(fld, "fz") : fld.field[k] # Zero

\* The call with input i after n steps on its own.
RECURSIVE Alone(_, _)
Alone(i, n) == IF n = 0 THEN SoloInit(i) ELSE Step(Alone(i, n - 1))

C21_DtypePriority ==
    LET a == fld.args
        f == a.frequency
    IN  /\ (f # PyNone /\ f[2] > 0) => fld.dtype = "complex128"
        /\ (f # PyNone /\ f[2] < 0) => fld.dtype = "float64"
        /\ (f # PyNone /\ f[2] = 0) =>
               fld.exc = "ValueError" /\ fld.dtype = "none" /\ fld.field = <<>>
        /\ (f = PyNone /\ a.data # "None") => fld.dtype = a.data
        /\ (f = PyNone /\ a.data = "None" /\ a.dtype # "None") =>
               fld.dtype = a.dtype
        /\ (f = PyNone /\ a.data = "None" /\ a.dtype = "None") =>
               fld.dtype = "complex128"
        /\ (f = PyNone \/ f[2] # 0) => fld.exc = "none" /\ fld.field # <<>>

\* A Laplace-domain Field built from complex data with dtype=int64: the
\* frequency has decided.
C21_Witness ==
    /\ fld.args = [frequency |-> PyInt(-1), data |-> "complex128",
                   dtype |-> "int64"]
    /\ fld.dtype = "float64"
    /\ fld.set = "none"
    /\ fld.field[2] = <<2, 0>>

\* A point is outside the grid (at the precision the coordinates are
\* rounded to).
PointOutside(q) ==
    \E a \in 1..3 : \/ RoundPoint(q)[a] < Nodes[1]
                    \/ RoundPoint(q)[a] > Nodes[Len(Nodes)]

\* C22: get_source_field raises ValueError('Provided source outside grid')
\* whenever either end point of a segment (of non-zero length) is outside
\* the grid in any coordinate, whatever the order of the two end points,
\* and then no source field is returned and the segment is not added.
C22_OutsideRaises ==
    \A k \in 1..src.i :
        LET p0 == src.points[k]
            p1 == src.points[k + 1]
        IN  (p0 # p1 /\ (PointOutside(p0) \/ PointOutside(p1))) =>
                /\ src.exc = "ValueError: outside grid"
                /\ src.out = "none"
                /\ \A j \in 1..Len(src.added) : src.added[j] # k

\* The operations of one iteration of call f, as claimed.
ClaimedOps(f, v) ==
    IF f.level = v.clevel[v.rdir + 1]
    THEN <<Op("smooth", v.nu_coarse)>>
    ELSE (IF v.nu_pre > 0 THEN <<Op("smooth", v.nu_pre)>> ELSE <<>>)
         \o <<Op("residual", 0),
              Op("restrict", RestrictCode(f.shape, v.rdir)),
              Op("call", f.level + 1),
              Op("prolong", RestrictCode(f.shape, v.rdir))>>
         \o (IF v.nu_post > 0 THEN <<Op("smooth", v.nu_post)>> ELSE <<>>)

\* C25: an iteration of multigrid() is, below the coarsest level,
\* pre-smoothing (if nu_pre > 0), residual, restriction, one recursive call
\* on a zero coarse field, prolongation with the code of the restriction,
\* post-smoothing (if nu_post > 0); on the coarsest level it is one
\* smoothing call with nu_coarse steps.
C25_OrderOfOperations ==
    InMultigrid =>
        \A d \in 1..Len(stack) :
            LET f == stack[d]
            IN  /\ f.pc = "count" => f.ops = ClaimedOps(f, var)
                /\ (f.level > 0 /\ f.pc = "init") =>
                       /\ FieldOf(f) = Zero
                       /\ stack[d - 1].ops[Len(stack[d - 1].ops)]
                              = Op("call", f.level)

\* A W-cycle is back on level 1 for the second time, after pre- and
\* post-smoothing, with a semicoarsening direction.
C25_Witness ==
    /\ InMultigrid
    /\ Len(stack) = 2
    /\ stack[2].pc = "count" /\ stack[2].it = 1
    /\ Len(stack[2].ops) = 6
    /\ stack[2].rcode # 0
    /\ var.cycle = "W"

BothDone == \A p \in Solves : View(p).pc = "done"

\* C27: two multigrid solves on identical inputs that differ only in verb
\* run through the same cycles, stop for the same reason and end with the
\* same var.l2.
C27_VerbosityPrintsOnly ==
    BothDone =>
        /\ View(1).log = View(2).log
        /\ View(1).v.it = View(2).v.it
        /\ View(1).reason = View(2).reason
        /\ View(1).v.l2 = View(2).v.l2

\* The Krylov solver may apply the preconditioner: no multigrid call runs.
BetweenApplications == pc = "krylov" /\ stack = <<>> /\ var.cycle # "None"

\* var.rdir and var.ldir are the first entries of their cycles and the
\* iterators stand right behind them.
AtFirstEntry(v) ==
    /\ v.rdir = v.rlist[1]
    /\ v.ldir = v.llist[1]
    /\ v.rcycle => v.rpos = NextPos(1, Len(v.rlist))
    /\ v.lcycle => v.lpos = NextPos(1, Len(v.llist))

\* C29: every application of the multigrid preconditioner starts with
\* var.rdir and var.ldir at the first entry of their cycles, whatever the
\* lengths of the two cycles.
C29_PreconditionerStartsAtFirstEntry ==
    BetweenApplications => AtFirstEntry(var)

\* Every grid of the running solve has at least 2 cells along every axis,
\* every coarse grid has half the cells of its parent along at least one
\* axis, and no grid lies below the coarsest level of the current rdir.
CoarseningSound ==
    \A i \in 1..Len(stack) :
        /\ \A a \in 1..3 : stack[i].shape[a] >= 2
        /\ stack[i].level = i - 1
        /\ stack[i].level <= var.clevel[var.rdir + 1]
        /\ i > 1 => \E a \in 1..3 :
                       2 * stack[i].shape[a] = stack[i - 1].shape[a]

\* A top-level cycle is under way.
CycleRunning ==
    /\ stack # <<>>
    /\ stack[1].pc \in {"coarse", "pre", "restrict", "prolong", "post"}

\* C28: every coarse grid has at least 2 cells along every axis, every
\* restriction halves at least one axis, the recursion stays within level
\* var.clevel[var.rdir]; each recursive multigrid() call returns and each
\* top-level cycle ends.
C28_CoarseningTerminates ==
    /\ []CoarseningSound
    /\ \A d \in 1..(MaxLevel + 1) : (Len(stack) > d) ~> (Len(stack) <= d)
    /\ CycleRunning ~> CycleComplete

\* C28, witness: an F-cycle on a 12 x 2 x 8 grid is complete after having
\* gone down to the 3 x 2 x 2 grid on level 2 more than once.
C28_Witness ==
    /\ CycleComplete
    /\ cfg.cycle = "F"
    /\ stack[1].shape = <<12, 2, 8>>
    /\ var.clevel[var.rdir + 1] = 2
    /\ obs.nCoarse > 1

----------------------------------------------------------------------------
(* simulations.Simulation (src/emg3d/simulations.py): the grids, models,    *)
(* source fields and electric fields of the source-frequency pairs of a     *)
(* survey.  A mesh is named by what it was made from, a model by the mesh   *)
(* it lives on, a field by what it was computed from.                       *)

\* The sources and the frequencies of the survey.
Sources == {1, 2}

Frequencies == {1, 2}

Pairs == Sources \X Frequencies

Modes == {"same", "single", "frequency", "source", "both", "input", "dict"}

\* The grid handed to Simulation(); the model handed to it lives on it.
InputGrid == <<"grid", "input", 0, 0>>

\* A mesh provided in gridding_opts: the one of 'input' (0, 0) or the one
\* of a pair of 'dict'.
ProvidedMesh(c, f) == <<"grid", "given", c, f>>

\* meshes.construct_mesh(**inp) as called in get_grid: the mesh is made from
\* self.gridding_opts and from the center c (the source) and the frequency
\* f put on top of it; 0 stands for the value of gridding_opts.
ConstructMesh(c, f) == <<"grid", "auto", c, f>>

\* self.model.interpolate2grid(self.grid, grid)
Interpolate2Grid(grid) == <<"model", grid>>

\* self.model
InputModel == <<"model", InputGrid>>

\* fields.get_source_field(grid, src.coordinates, freq, strength)
GetSourceField(grid, c, f) == <<"sfield", grid, c, f>>

\* solver.solve(grid, model, sfield, ...)
Solve(grid, model, sfield) == <<"efield", grid, model, sfield>>

\* Lines 919-923: dict[source][freq] = None.
DictInitiate == [p \in Pairs |-> PyNone]

\* The dict of meshes handed over with gridding='dict': one mesh per pair,
\* or the same mesh for every pair.
ProvidedMeshes(kind) ==
    [p \in Pairs |-> IF kind = "distinct" THEN ProvidedMesh(p[1], p[2])
                     ELSE ProvidedMesh(0, 0)]

\* Lines 169-250: the Simulation after __init__; an attribute that is not
\* set, and a key that is not in a dict, are PyNone.  `solves` counts the
\* calls of the solver for a pair since the last clean and `handed` holds
\* the pairs that the call last made gave to the workers.
NewSimulation(mode, kind) ==
    [gridding |-> mode, kind |-> kind,
     dict_grid |-> IF mode = "dict" THEN ProvidedMeshes(kind)
                   ELSE DictInitiate,
     dict_model |-> DictInitiate,
     dict_sfield |-> DictInitiate,
     dict_efield |-> DictInitiate,
     grid_single |-> IF mode = "input" THEN ProvidedMesh(0, 0) ELSE PyNone,
     grid_frequency |-> [f \in Frequencies |-> PyNone],
     grid_source |-> [c \in Sources |-> PyNone],
     model_single |-> PyNone,
     model_frequency |-> [f \in Frequencies |-> PyNone],
     model_source |-> [c \in Sources |-> PyNone],
     has_opts |-> mode \in {"single", "frequency", "source", "both"},
     solves |-> [p \in Pairs |-> 0],
     handed |-> {}]

\* What a call leaves behind: the Simulation, the value returned and the
\* exception raised.
Result(S, r, e) == [s |-> S, ret |-> r, exc |-> e]

\* x if it is there, else y.
OrElse(x, y) == IF x = PyNone THEN y ELSE x

\* Lines 503-570: get_grid(source, frequency).
DoGetGrid(S, c, f) ==
    LET p == <<c, f>>
        Store(T, g) == Result([T EXCEPT !.dict_grid[p] = g], g, "none")
    IN  IF S.dict_grid[p] # PyNone THEN Result(S, S.dict_grid[p], "none")
        ELSE IF S.gridding = "same" THEN Store(S, InputGrid)
        ELSE IF S.gridding = "frequency"
        THEN LET g == OrElse(S.grid_frequency[f], ConstructMesh(0, f))
             IN  Store([S EXCEPT !.grid_frequency[f] = g], g)
        ELSE IF S.gridding = "source"
        THEN LET g == OrElse(S.grid_source[c], ConstructMesh(c, 0))
             IN  Store([S EXCEPT !.grid_source[c] = g], g)
        ELSE IF S.gridding = "both" THEN Store(S, ConstructMesh(c, f))
        ELSE IF S.grid_single = PyNone /\ ~S.has_opts
        THEN Result(S, PyNone, "AttributeError")
        ELSE LET g == OrElse(S.grid_single, ConstructMesh(0, 0))
             IN  Store([S EXCEPT !.grid_single = g], g)

\* Lines 572-631: get_model(source, frequency).
DoGetModel(S, c, f) ==
    LET p == <<c, f>>
        G == DoGetGrid(S, c, f)
        Store(T, m) == Result([T EXCEPT !.dict_model[p] = m], m, "none")
    IN  IF S.dict_model[p] # PyNone THEN Result(S, S.dict_model[p], "none")
        ELSE IF S.gridding = "same" THEN Store(S, InputModel)
        ELSE IF S.gridding = "frequency"
        THEN IF S.model_frequency[f] # PyNone
             THEN Store(S, S.model_frequency[f])
             ELSE IF G.exc # "none" THEN G
             ELSE Store([G.s EXCEPT !.model_frequency[f] =
                                        Interpolate2Grid(G.ret)],
                        Interpolate2Grid(G.ret))
        ELSE IF S.gridding = "source"
        THEN IF S.model_source[c] # PyNone
             THEN Store(S, S.model_source[c])
             ELSE IF G.exc # "none" THEN G
             ELSE Store([G.s EXCEPT !.model_source[c] =
                                        Interpolate2Grid(G.ret)],
                        Interpolate2Grid(G.ret))
        ELSE IF S.gridding = "both"
        THEN IF G.exc # "none" THEN G
             ELSE Store(G.s, Interpolate2Grid(G.ret))
        ELSE IF S.model_single # PyNone THEN Store(S, S.model_single)
        ELSE IF G.exc # "none" THEN G
        ELSE Store([G.s EXCEPT !.model_single = Interpolate2Grid(G.ret)],
                   Interpolate2Grid(G.ret))

\* Lines 633-656: get_sfield(source, frequency).
DoGetSfield(S, c, f) ==
    LET p == <<c, f>>
        G == DoGetGrid(S, c, f)
    IN  IF S.dict_sfield[p] # PyNone THEN Result(S, S.dict_sfield[p], "none")
        ELSE IF G.exc # "none" THEN G
        ELSE Result([G.s EXCEPT !.dict_sfield[p] =
                                    GetSourceField(G.ret, c, f)],
                    GetSourceField(G.ret, c, f), "none")

\* One more call of the solver for a pair; the count stops at 2.
Counted(n) == IF n < 2 THEN n + 1 ELSE n

\* Lines 658-711: get_efield(source, frequency).
DoGetEfield(S, c, f) ==
    LET p == <<c, f>>
        G == DoGetGrid(S, c, f)
        M == DoGetModel(G.s, c, f)
        F == DoGetSfield(M.s, c, f)
        e == Solve(G.ret, M.ret, F.ret)
    IN  IF S.dict_efield[p] # PyNone THEN Result(S, S.dict_efield[p], "none")
        ELSE IF G.exc # "none" THEN G
        ELSE IF M.exc # "none" THEN M
        ELSE IF F.exc # "none" THEN F
        ELSE Result([F.s EXCEPT !.dict_efield[p] = e,
                                !.solves[p] = Counted(@)], e, "none")

\* Lines 925-934: the list of all source-frequency pairs, sources first.
SrcFreq == <<<<1, 1>>, <<1, 2>>, <<2, 1>>, <<2, 2>>>>

\* Has the pair to be computed; faulty variant: every pair has.
IsMissing_all(S, p) == TRUE

\* Lines 757-762: the pairs that were already computed are removed.
IsMissing(S, p) == S.dict_efield[p] = PyNone

\* Lines 754-762: the pairs compute() works on, in the order of the list.
Missing(S) == SelectSeq(SrcFreq, LAMBDA p : IsMissing(S, p))

RECURSIVE CacheAll(_, _)
\* Lines 770-773: grids, models and source fields of the pairs of q.
CacheAll(S, q) ==
    IF q = <<>> THEN Result(S, PyNone, "none")
    ELSE LET G == DoGetGrid(S, q[1][1], q[1][2])
             M == DoGetModel(G.s, q[1][1], q[1][2])
             F == DoGetSfield(M.s, q[1][1], q[1][2])
         IN  IF G.exc # "none" THEN G
             ELSE IF M.exc # "none" THEN M
             ELSE IF F.exc # "none" THEN F
             ELSE CacheAll(F.s, Tail(q))

\* The pairs of a list.
Range(q) == {q[k] : k \in 1..Len(q)}

\* Lines 737-806: compute().  Every worker gets a copy of the Simulation
\* and one pair, calls get_efield on it (lines 733-735) and hands back the
\* field, which compute() stores.
DoCompute(S) ==
    LET q == Missing(S)
        C == CacheAll(S, q)
        T == C.s
    IN  IF C.exc # "none" THEN [C EXCEPT !.ret = {}]
        ELSE Result(
                [T EXCEPT
                    !.dict_efield = [p \in Pairs |->
                        IF p \in Range(q)
                        THEN DoGetEfield(
                                 [T EXCEPT !.dict_efield[p] = PyNone],
                                 p[1], p[2]).ret
                        ELSE @[p]],
                    !.solves = [p \in Pairs |->
                        IF p \in Range(q) THEN Counted(@[p]) ELSE @[p]]],
                Range(q), "none")

Whats == {"computed", "keepresults", "all", "everything"}

\* Lines 874-917: clean(what).
DoClean(S, what) ==
    IF what \notin {"computed", "keepresults", "all"}
    THEN Result(S, PyNone, "TypeError")
    ELSE LET more == what \in {"keepresults", "all"}
         IN  Result([S EXCEPT
                        !.dict_grid = IF more THEN DictInitiate ELSE @,
                        !.dict_model = IF more THEN DictInitiate ELSE @,
                        !.dict_sfield = IF more THEN DictInitiate ELSE @,
                        !.dict_efield = DictInitiate,
                        !.solves = [p \in Pairs |-> 0]],
                    PyNone, "none")

\* A Simulation is constructed, for every gridding.
SimInit ==
    /\ \E mode \in Modes, kind \in {"distinct", "shared"} :
          /\ mode # "dict" => kind = "shared"
          /\ sim = NewSimulation(mode, kind)
    /\ cfg = BaseCfg
    /\ pc = "start"
    /\ var = NullVar
    /\ stack = <<>>
    /\ heap = [o \in Objs |-> Zero]
    /\ ef = 0
    /\ do_run = TRUE
    /\ do_return = TRUE
    /\ ret = [kind |-> "pending", obj |-> 0]
    /\ exc = "none"
    /\ reason = "none"
    /\ kry = [prec |-> 0, flag |-> 0]
    /\ obs = [nSmooth |-> 0, nCoarse |-> 0, smooth |-> NoSmoothing,
              l2_true |-> 0, it0 |-> 0]
    /\ fld = NoField
    /\ par = NoPar
    /\ src = NoSource

SimGetGrid ==
    /\ \E p \in Pairs :
          LET R == DoGetGrid(sim, p[1], p[2])
          IN  sim' = [R.s EXCEPT !.handed = {}]
    /\ UNCHANGED <<cfg, pc, var, stack, heap, ef, do_run, do_return, ret,
                   exc, reason, kry, obs, fld, par, src>>

SimGetModel ==
    /\ \E p \in Pairs :
          LET R == DoGetModel(sim, p[1], p[2])
          IN  sim' = [R.s EXCEPT !.handed = {}]
    /\ UNCHANGED <<cfg, pc, var, stack, heap, ef, do_run, do_return, ret,
                   exc, reason, kry, obs, fld, par, src>>

SimGetSfield ==
    /\ \E p \in Pairs :
          LET R == DoGetSfield(sim, p[1], p[2])
          IN  sim' = [R.s EXCEPT !.handed = {}]
    /\ UNCHANGED <<cfg, pc, var, stack, heap, ef, do_run, do_return, ret,
                   exc, reason, kry, obs, fld, par, src>>

SimGetEfield ==
    /\ \E p \in Pairs :
          LET R == DoGetEfield(sim, p[1], p[2])
          IN  sim' = [R.s EXCEPT !.handed = {}]
    /\ UNCHANGED <<cfg, pc, var, stack, heap, ef, do_run, do_return, ret,
                   exc, reason, kry, obs, fld, par, src>>

SimCompute ==
    /\ LET R == DoCompute(sim)
       IN  sim' = [R.s EXCEPT !.handed = R.ret]
    /\ UNCHANGED <<cfg, pc, var, stack, heap, ef, do_run, do_return, ret,
                   exc, reason, kry, obs, fld, par, src>>

SimClean ==
    /\ \E what \in Whats :
          LET R == DoClean(sim, what)
          IN  sim' = [R.s EXCEPT !.handed = {}]
    /\ UNCHANGED <<cfg, pc, var, stack, heap, ef, do_run, do_return, ret,
                   exc, reason, kry, obs, fld, par, src>>

SimNext ==
    \/ SimGetGrid
    \/ SimGetModel
    \/ SimGetSfield
    \/ SimGetEfield
    \/ SimCompute
    \/ SimClean

SpecSim == SimInit /\ [][SimNext]_vars

\* What the next call of get_grid, get_model, get_sfield and get_efield
\* for the pair p gives: the value returned and the exception raised.
Answers(S, p) ==
    LET Of(R) == <<R.ret, R.exc>>
    IN  [grid |-> Of(DoGetGrid(S, p[1], p[2])),
         model |-> Of(DoGetModel(S, p[1], p[2])),
         sfield |-> Of(DoGetSfield(S, p[1], p[2])),
         efield |-> Of(DoGetEfield(S, p[1], p[2]))]

\* C23: in every gridding mode and after any calls, get_model(source,
\* frequency) returns the input model interpolated onto the grid that
\* get_grid(source, frequency) returns for that pair.
C23_ModelOnGridOfPair ==
    \A p \in Pairs :
        Answers(sim, p).model[2] = "none" =>
            Answers(sim, p).model[1] =
                Interpolate2Grid(Answers(sim, p).grid[1])

\* C24: after clean('all'), whatever was computed before, the Simulation
\* answers get_grid, get_model, get_sfield and get_efield for every pair as
\* a newly constructed Simulation with the same inputs does; clean() with
\* an unknown `what` raises TypeError and changes nothing.
C24_CleanAllAsNew ==
    /\ \A p \in Pairs :
          Answers(DoClean(sim, "all").s, p) =
              Answers(NewSimulation(sim.gridding, sim.kind), p)
    /\ DoClean(sim, "everything") = Result(sim, PyNone, "TypeError")

\* The electric field of the pair p is stored.
Stored(S, p) == S.dict_efield[p] # PyNone

\* C30: between two cleans the solver is called at most once per pair; a
\* stored electric field is returned by get_efield and kept by get_efield
\* and compute(); a compute() that returns hands to the workers exactly the
\* pairs whose field is missing, with grid, model and source field cached
\* for each of them, and stores the field solved from these.
C30_SolvedOncePerPair ==
    /\ [](\A p \in Pairs :
            /\ sim.solves[p] <= 1
            /\ Stored(sim, p) =>
                  Answers(sim, p).efield = <<sim.dict_efield[p], "none">>)
    /\ [][(SimGetEfield \/ SimCompute) =>
            \A p \in Pairs :
                Stored(sim, p) =>
                    /\ sim'.dict_efield[p] = sim.dict_efield[p]
                    /\ sim'.solves[p] = sim.solves[p]]_vars
    /\ [][(SimCompute /\ DoCompute(sim).exc = "none") =>
            /\ sim'.handed = {p \in Pairs : ~Stored(sim, p)}
            /\ \A p \in sim'.handed :
                  /\ sim'.dict_grid[p] # PyNone
                  /\ sim'.dict_model[p] # PyNone
                  /\ sim'.dict_sfield[p] # PyNone
                  /\ sim'.dict_efield[p] =
                        Solve(sim'.dict_grid[p], sim'.dict_model[p],
                              sim'.dict_sfield[p])
                  /\ sim'.solves[p] = 1]_vars

\* C30, witness: compute() has handed one pair to the workers, the fields of
\* the other pairs having been stored by get_efield before.
C30_Witness ==
    /\ Cardinality(sim.handed) = 1
    /\ \A p \in Pairs : Stored(sim, p) /\ sim.solves[p] = 1

=============================================================================
